---- MODULE Spec2Model ----
(***************************************************************************)
(* Model of the clinical-note normalizer and PDF renderer of               *)
(* backend/app/services/pdf_service.py (class PDFService).                 *)
(*                                                                         *)
(* A Python str is modelled as a sequence of characters, each character a  *)
(* one-character TLA+ string ("a", " ", "-", "\n", ...).  The only         *)
(* characters that are not written literally are the non-ASCII ones, which *)
(* are named by their code point ("U+0B95") and classified by CodePoint.   *)
(* The string functions of PDFService are operators over such sequences,   *)
(* computed the way the Python code computes them (leftmost regex matches, *)
(* str.split, str.strip, str.rstrip).                                      *)
(***************************************************************************)
EXTENDS Integers, Sequences, FiniteSets, TLC

VARIABLES
    pc,             \* position of the modelled call ("input", "normalized", ...)
    markdown,       \* argument of _normalize_soap_markdown
    normalized,     \* its result
    renormalized,   \* result of normalizing that result again
    content,        \* argument of _convert_to_bullet_points
    bulleted,       \* its result
    rebulleted,     \* result of bulleting the re-joined items again
    text,           \* argument of _remove_tamil_text
    filtered,       \* its result
    soap_note,      \* the soap_note dict handed to the section assembler
    soap_markdown,  \* the markdown the assembler built from it
    WEASYPRINT_AVAILABLE,  \* module flag set at import time
    USE_REPORTLAB,         \* module flag set at import time
    consultation_data,     \* argument of generate_consultation_pdf
    pdf_buffer,     \* the BytesIO buffer of the running call
    raised,         \* exceptions raised by the backend during the call
    outcome,        \* what the call handed to its caller
    calls,          \* the render calls of one process: language, position, locals
    registry,       \* reportlab's process-wide font registry: name -> font file
    registrations,  \* the pdfmetrics.registerFont calls that succeeded, in order
    font_files,     \* the font files that exist on disk
    stored,         \* the consultations table: the row of the consultation
    current_user,   \* the user a request for the PDF comes from
    consultation,   \* the row as get_consultation_pdf fetched it
    response,       \* what get_consultation_pdf answered
    story,          \* the list of flowables of the reportlab document
    walk_lines,     \* "lines" of _add_soap_note_to_story: the lines walked over
    line_no,        \* the index of the next line of the walk
    current_section,  \* local of the walk: the text of the last header
    current_bullets,  \* local of the walk: the buffered bullet texts
    entities_text,  \* local of _generate_with_reportlab
    icd_text        \* local of _generate_with_reportlab

normVars   == <<markdown, normalized, renormalized>>
bulletVars == <<content, bulleted, rebulleted>>
filterVars == <<text, filtered>>
assembleVars == <<soap_note, soap_markdown>>
renderVars == <<WEASYPRINT_AVAILABLE, USE_REPORTLAB, consultation_data,
                pdf_buffer, raised, outcome>>
fontVars == <<calls, registry, registrations, font_files>>
endpointVars == <<stored, current_user, consultation, response>>
storyVars == <<story, walk_lines, line_no, current_section, current_bullets,
               entities_text, icd_text>>
laterVars == <<fontVars, endpointVars, storyVars>>
vars == <<pc, normVars, bulletVars, filterVars, assembleVars, renderVars, laterVars>>

\* value of a variable that the specification at hand does not use
Unused == <<"<unused>">>

\* Python's None (no str is equal to it)
None == <<"<None>">>

----------------------------------------------------------------------------
(* Characters *)

\* code points of the non-ASCII characters of the model's alphabets
CodePoint(c) ==
    CASE c = "U+0B7F" -> 2943     \* last code point before the Tamil block
      [] c = "U+0B95" -> 2965     \* TAMIL LETTER KA
      [] c = "U+0BFF" -> 3071     \* last code point of the Tamil block
      [] c = "U+0C15" -> 3093     \* TELUGU LETTER KA
      [] OTHER -> 0               \* ASCII: below every range tested

TamilFirst == 2944   \* '\u0B80'
TamilLast == 3071    \* '\u0BFF'

\* a range test that leaves out the last character of the range
IsTamilBelowLast(c) == CodePoint(c) >= TamilFirst /\ CodePoint(c) < TamilLast

\* '\u0B80' <= c <= '\u0BFF'
IsTamil(c) == CodePoint(c) >= TamilFirst /\ CodePoint(c) <= TamilLast

\* \s of re, and the characters str.strip() removes
IsSpace(c) == c \in {" ", "\n", "\t"}

\* \w of re over the model's alphabets: ASCII letters, digits, underscore
\* and the non-ASCII letters
IsWord(c) ==
    \/ c \in {"a", "b", "c", "d", "e", "f", "g", "h", "i", "j", "k", "l", "m",
              "n", "o", "p", "q", "r", "s", "t", "u", "v", "w", "x", "y", "z",
              "A", "B", "C", "D", "E", "F", "G", "H", "I", "J", "K", "L", "M",
              "N", "O", "P", "Q", "R", "S", "T", "U", "V", "W", "X", "Y", "Z",
              "0", "1", "2", "3", "4", "5", "6", "7", "8", "9", "_"}
    \/ c \in {"U+0B95", "U+0C15"}

----------------------------------------------------------------------------
(* str methods *)

Max(S) == CHOOSE x \in S : \A y \in S : y <= x
Min(S) == CHOOSE x \in S : \A y \in S : x <= y

\* the one element of a set {e(x) : x \in {v}}: e with the local variable x
\* assigned v
Only(S) == CHOOSE result \in S : TRUE

\* index of the first character at or after i that is not whitespace
\* (Len(s)+1 when there is none): where a greedy \s* starting at i ends
SkipSpace(s, i) ==
    Min({j \in i..(Len(s) + 1) : j = Len(s) + 1 \/ ~IsSpace(s[j])})

\* s.lstrip(), s.rstrip(), s.strip()
LStrip(s) == SubSeq(s, SkipSpace(s, 1), Len(s))
RStrip(s) ==
    SubSeq(s, 1, Max({j \in 0..Len(s) : j = 0 \/ ~IsSpace(s[j])}))
Strip(s) == LStrip(RStrip(s))

\* s.rstrip('.'): every trailing period is removed, nothing else
RStripDots(s) ==
    SubSeq(s, 1, Max({j \in 0..Len(s) : j = 0 \/ s[j] # "."}))

\* s[i:].startswith(p), i counted from 1
StartsWithAt(s, p, i) ==
    /\ i + Len(p) - 1 <= Len(s)
    /\ \A k \in 1..Len(p) : s[i + k - 1] = p[k]

\* s.startswith(p)
StartsWith(s, p) == StartsWithAt(s, p, 1)

\* p in s
Contains(s, p) == \E i \in 1..(Len(s) + 1) : StartsWithAt(s, p, i)

RECURSIVE SplitFrom(_, _, _, _)
SplitFrom(s, sep, start, i) ==
    Only({IF k > Len(s) THEN <<SubSeq(s, start, Len(s))>>
          ELSE <<SubSeq(s, start, k - 1)>>
               \o SplitFrom(s, sep, k + Len(sep), k + Len(sep))
          : k \in {Min({j \in i..Len(s) : StartsWithAt(s, sep, j)}
                       \cup {Len(s) + 1})}})

\* s.split(sep): the pieces between the leftmost non-overlapping
\* occurrences of sep
Split(s, sep) == SplitFrom(s, sep, 1, 1)

RECURSIVE Join(_, _)
\* sep.join(parts)
Join(parts, sep) ==
    IF parts = <<>> THEN <<>>
    ELSE IF Len(parts) = 1 THEN parts[1]
    ELSE parts[1] \o sep \o Join(Tail(parts), sep)

----------------------------------------------------------------------------
(* Regular expressions.  A pattern is named by its source text; ReMatch    *)
(* gives, for a pattern and a position i of s, the index just after the    *)
(* match that re finds starting at i, or 0 when the pattern does not match *)
(* at i.  Every pattern below matches at least one character.  A greedy    *)
(* \s* followed by a non-space character can only end where the run of     *)
(* whitespace ends, so backtracking never yields another match.            *)

BulletSeparator == "\\s*-\\s+|\\s*\\.\\s*-\\s*"
SectionMarker == "\\s*##\\s+"
SubjectivePrefix == "^Subjective\\s*-\\s*"
TamilBracket == "\\[[^\\]]*[\\u0B80-\\u0BFF][^\\]]*\\]"
Whitespace == "\\s+"
EmptyBrackets == "\\s*\\[\\s*\\]\\s*"
HeaderToken == "(##\\s+\\w+)"

\* the character at i, or "" past the end
At(s, i) == IF i >= 1 /\ i <= Len(s) THEN s[i] ELSE ""

\* MatchDash for \s*-\s* : the whitespace after the hyphen optional
MatchDashAnywhere(s, i) ==
    LET d == SkipSpace(s, i)
    IN IF At(s, d) = "-" THEN SkipSpace(s, d + 1) ELSE 0

\* \s*-\s+
MatchDash(s, i) ==
    LET d == SkipSpace(s, i)
    IN IF At(s, d) = "-" /\ IsSpace(At(s, d + 1)) THEN SkipSpace(s, d + 1) ELSE 0

\* \s*\.\s*-\s*
MatchDotDash(s, i) ==
    LET p == SkipSpace(s, i)
        d == SkipSpace(s, p + 1)
    IN IF At(s, p) = "." /\ At(s, d) = "-" THEN SkipSpace(s, d + 1) ELSE 0

\* \s*##\s+
MatchMarker(s, i) ==
    LET h == SkipSpace(s, i)
    IN IF At(s, h) = "#" /\ At(s, h + 1) = "#" /\ IsSpace(At(s, h + 2))
       THEN SkipSpace(s, h + 2) ELSE 0

\* ^Subjective\s*-\s*
MatchSubjectivePrefix(s, i) ==
    LET w == <<"S", "u", "b", "j", "e", "c", "t", "i", "v", "e">>
        d == SkipSpace(s, Len(w) + 1)
    IN IF i = 1 /\ StartsWith(s, w) /\ At(s, d) = "-"
       THEN SkipSpace(s, d + 1) ELSE 0

\* \[[^\]]*[\u0B80-\u0BFF][^\]]*\] : from "[" to the first "]" after it,
\* with a Tamil character in between
MatchTamilBracket(s, i) ==
    LET closing == {j \in (i + 1)..Len(s) : s[j] = "]"}
    IN IF At(s, i) = "[" /\ closing # {}
          /\ \E k \in (i + 1)..(Min(closing) - 1) : IsTamil(s[k])
       THEN Min(closing) + 1 ELSE 0

\* \s+
MatchWhitespace(s, i) ==
    IF IsSpace(At(s, i)) THEN SkipSpace(s, i) ELSE 0

\* \s*\[\s*\]\s*
MatchEmptyBrackets(s, i) ==
    LET o == SkipSpace(s, i)
        c == SkipSpace(s, o + 1)
    IN IF At(s, o) = "[" /\ At(s, c) = "]" THEN SkipSpace(s, c + 1) ELSE 0

\* ##\s+\w+
MatchHeaderToken(s, i) ==
    LET w == SkipSpace(s, i + 2)
    IN IF At(s, i) = "#" /\ At(s, i + 1) = "#" /\ IsSpace(At(s, i + 2))
          /\ IsWord(At(s, w))
       THEN Min({j \in w..(Len(s) + 1) : ~IsWord(At(s, j))}) ELSE 0

ReMatch(re, s, i) ==
    CASE re = BulletSeparator ->
            IF MatchDash(s, i) # 0 THEN MatchDash(s, i) ELSE MatchDotDash(s, i)
      [] re = SectionMarker -> MatchMarker(s, i)
      [] re = SubjectivePrefix -> MatchSubjectivePrefix(s, i)
      [] re = TamilBracket -> MatchTamilBracket(s, i)
      [] re = Whitespace -> MatchWhitespace(s, i)
      [] re = EmptyBrackets -> MatchEmptyBrackets(s, i)
      [] re = HeaderToken -> MatchHeaderToken(s, i)

\* index of the leftmost match of re in s at or after i (Len(s)+1 when there
\* is none): the scan of re.split and re.sub
FirstMatch(re, s, i) ==
    Min({k \in i..Len(s) : ReMatch(re, s, k) # 0} \cup {Len(s) + 1})

RECURSIVE ReSplitFrom(_, _, _, _)
ReSplitFrom(re, s, start, i) ==
    Only({IF k > Len(s) THEN <<SubSeq(s, start, Len(s))>>
          ELSE Only({<<SubSeq(s, start, k - 1)>> \o ReSplitFrom(re, s, e, e)
                     : e \in {ReMatch(re, s, k)}})
          : k \in {FirstMatch(re, s, i)}})

\* re.split(re, s), for a pattern without groups: the pieces between the
\* leftmost non-overlapping matches
ReSplit(re, s) == ReSplitFrom(re, s, 1, 1)

RECURSIVE ReSplitGroupFrom(_, _, _, _)
ReSplitGroupFrom(re, s, start, i) ==
    Only({IF k > Len(s) THEN <<SubSeq(s, start, Len(s))>>
          ELSE Only({<<SubSeq(s, start, k - 1), SubSeq(s, k, e - 1)>>
                     \o ReSplitGroupFrom(re, s, e, e)
                     : e \in {ReMatch(re, s, k)}})
          : k \in {FirstMatch(re, s, i)}})

\* re.split(re, s), for a pattern that is one group: the pieces between the
\* matches alternate with the matched texts
ReSplitGroup(re, s) == ReSplitGroupFrom(re, s, 1, 1)

RECURSIVE ReSubFrom(_, _, _, _)
ReSubFrom(re, repl, s, i) ==
    Only({IF k > Len(s) THEN SubSeq(s, i, Len(s))
          ELSE SubSeq(s, i, k - 1) \o repl
               \o ReSubFrom(re, repl, s, ReMatch(re, s, k))
          : k \in {FirstMatch(re, s, i)}})

\* re.sub(re, repl, s)
ReSub(re, repl, s) == ReSubFrom(re, repl, s, 1)

----------------------------------------------------------------------------
(* PDFService._convert_to_bullet_points *)

\* "- " and "\n"
BulletPrefix == <<"-", " ">>
NL == <<"\n">>

RECURSIVE CleanItemsOnePeriod(_)
\* CleanItems taking one trailing period off an item, not all of them
CleanItemsOnePeriod(items) ==
    IF items = <<>> THEN <<>>
    ELSE LET stripped == Strip(Head(items))
             item == IF At(stripped, Len(stripped)) = "."
                     THEN SubSeq(stripped, 1, Len(stripped) - 1)
                     ELSE stripped
         IN (IF item # <<>> THEN <<BulletPrefix \o item>> ELSE <<>>)
            \o CleanItemsOnePeriod(Tail(items))

RECURSIVE CleanItems(_)
\* the loop over items of _convert_to_bullet_points, _process_section_lines
\* and _normalize_soap_markdown: each item stripped, then its trailing
\* periods removed, kept with the "- " prefix when something is left
CleanItems(items) ==
    IF items = <<>> THEN <<>>
    ELSE LET item == RStripDots(Strip(Head(items)))
         IN (IF item # <<>> THEN <<BulletPrefix \o item>> ELSE <<>>)
            \o CleanItems(Tail(items))

ConvertToBulletPoints(t) ==
    IF t = <<>> \/ Strip(t) = <<>> THEN <<>>
    ELSE LET bullet_items == CleanItems(ReSplit(BulletSeparator, t))
         IN IF bullet_items = <<>>
            THEN IF StartsWith(Strip(t), <<"-">>)
                 THEN Strip(t)
                 ELSE BulletPrefix \o Strip(t)
            ELSE Join(bullet_items, NL)

----------------------------------------------------------------------------
(* PDFService._process_section_lines and PDFService._ensure_bullet_points *)

DashSep == <<" ", "-", " ">>
HeaderMark == <<"#", "#">>

\* one line of _process_section_lines: the bullet lines it appends
ProcessSectionLine(line) ==
    LET stripped == Strip(line)
    IN IF stripped = <<>> THEN <<>>
       ELSE IF StartsWith(stripped, BulletPrefix) THEN <<stripped>>
       ELSE IF Contains(stripped, DashSep) THEN CleanItems(Split(stripped, DashSep))
       ELSE <<BulletPrefix \o stripped>>

RECURSIVE ProcessSectionLines(_)
ProcessSectionLines(lines) ==
    IF lines = <<>> THEN <<>>
    ELSE ProcessSectionLine(Head(lines)) \o ProcessSectionLines(Tail(lines))

\* EnsureLine with a blank line that also ends the section it stands in
EnsureLineBlankEndsSection(st, line) ==
    LET stripped == Strip(line)
        flushed == st.result \o ProcessSectionLines(st.current_section_lines)
    IN IF StartsWith(stripped, HeaderMark)
       THEN [result |-> Append(flushed, line), in_section |-> TRUE,
             current_section_lines |-> <<>>]
       ELSE IF stripped = <<>>
       THEN [result |-> Append(flushed, <<>>), in_section |-> FALSE,
             current_section_lines |-> <<>>]
       ELSE IF st.in_section
       THEN [st EXCEPT !.current_section_lines = Append(@, stripped)]
       ELSE [st EXCEPT !.result = Append(@, line)]

\* one iteration of the loop of _ensure_bullet_points over the state
\* (result, in_section, current_section_lines)
EnsureLine(st, line) ==
    LET stripped == Strip(line)
        flushed == st.result \o ProcessSectionLines(st.current_section_lines)
    IN IF StartsWith(stripped, HeaderMark)
       THEN [result |-> Append(flushed, line), in_section |-> TRUE,
             current_section_lines |-> <<>>]
       ELSE IF stripped = <<>>
       THEN [result |-> Append(flushed, <<>>), in_section |-> st.in_section,
             current_section_lines |-> <<>>]
       ELSE IF st.in_section
       THEN [st EXCEPT !.current_section_lines = Append(@, stripped)]
       ELSE [st EXCEPT !.result = Append(@, line)]

RECURSIVE EnsureLines(_, _, _)
EnsureLines(st, lines, i) ==
    IF i > Len(lines) THEN st
    ELSE EnsureLines(EnsureLine(st, lines[i]), lines, i + 1)

EnsureBulletPoints(md) ==
    IF md = <<>> THEN <<>>
    ELSE LET st == EnsureLines([result |-> <<>>, in_section |-> FALSE,
                                current_section_lines |-> <<>>],
                               Split(md, NL), 1)
         IN Join(st.result \o ProcessSectionLines(st.current_section_lines), NL)

----------------------------------------------------------------------------
(* PDFService._normalize_soap_markdown *)

SubjectiveWord == <<"S", "u", "b", "j", "e", "c", "t", "i", "v", "e">>
SubjectiveHeader == <<"#", "#", " ">> \o SubjectiveWord
ObjectiveHeader == <<"#", "#", " ", "O", "b", "j", "e", "c", "t", "i", "v", "e">>
AssessmentHeader ==
    <<"#", "#", " ", "A", "s", "s", "e", "s", "s", "m", "e", "n", "t">>
PlanHeader == <<"#", "#", " ", "P", "l", "a", "n">>

\* "##" in markdown and "\n" not in markdown
IsFlattened(md) == Contains(md, HeaderMark) /\ ~Contains(md, NL)

\* SectionOfPart with the "Subjective - " prefix of the leading piece left
\* in its content
SectionOfPartKeepPrefix(i, part) ==
    IF i = 0 THEN [header |-> SubjectiveHeader, content |-> part]
    ELSE IF Contains(part, DashSep)
    THEN LET at == Min({k \in 1..Len(part) : StartsWithAt(part, DashSep, k)})
         IN [header |-> <<"#", "#", " ">> \o Strip(SubSeq(part, 1, at - 1)),
             content |-> Strip(SubSeq(part, at + Len(DashSep), Len(part)))]
    ELSE [header |-> <<"#", "#", " ">> \o Strip(part), content |-> <<>>]

\* SectionOfPart taking the word Subjective off the leading piece whether
\* or not a hyphen follows it
SectionOfPartStripsWord(i, part) ==
    IF i = 0
    THEN [header |-> SubjectiveHeader,
          content |-> IF MatchSubjectivePrefix(part, 1) # 0
                      THEN ReSub(SubjectivePrefix, <<>>, part)
                      ELSE IF StartsWith(part, SubjectiveWord)
                      THEN Strip(SubSeq(part, Len(SubjectiveWord) + 1, Len(part)))
                      ELSE part]
    ELSE IF Contains(part, DashSep)
    THEN LET at == Min({k \in 1..Len(part) : StartsWithAt(part, DashSep, k)})
         IN [header |-> <<"#", "#", " ">> \o Strip(SubSeq(part, 1, at - 1)),
             content |-> Strip(SubSeq(part, at + Len(DashSep), Len(part)))]
    ELSE [header |-> <<"#", "#", " ">> \o Strip(part), content |-> <<>>]

\* the header and the content of the i-th piece (i counted from 0) of the
\* split of a flattened note; part is the piece, stripped and not empty
SectionOfPart(i, part) ==
    IF i = 0
    THEN [header |-> SubjectiveHeader,
          content |-> IF StartsWith(part, SubjectiveWord)
                      THEN ReSub(SubjectivePrefix, <<>>, part)
                      ELSE part]
    ELSE IF Contains(part, DashSep)
    THEN LET at == Min({k \in 1..Len(part) : StartsWithAt(part, DashSep, k)})
         IN [header |-> <<"#", "#", " ">> \o Strip(SubSeq(part, 1, at - 1)),
             content |-> Strip(SubSeq(part, at + Len(DashSep), Len(part)))]
    ELSE [header |-> <<"#", "#", " ">> \o Strip(part), content |-> <<>>]

\* SectionText with the header of a section without content left out
SectionTextDropsEmpty(header, c) ==
    IF c = <<>> THEN <<>>
    ELSE LET bullets == CleanItems(Split(c, DashSep))
         IN IF bullets # <<>>
            THEN header \o NL \o Join(bullets, NL)
            ELSE header \o NL \o BulletPrefix \o c

\* the section text appended for a header and its content
SectionText(header, c) ==
    IF c = <<>> THEN header
    ELSE LET bullets == CleanItems(Split(c, DashSep))
         IN IF bullets # <<>>
            THEN header \o NL \o Join(bullets, NL)
            ELSE header \o NL \o BulletPrefix \o c

RECURSIVE FlattenedSectionsDropsUnknown(_, _)
\* FlattenedSections keeping only the pieces whose header is one of the four
\* headers Subjective, Objective, Assessment, Plan
FlattenedSectionsDropsUnknown(parts, i) ==
    IF i > Len(parts) THEN <<>>
    ELSE LET part == Strip(parts[i])
             sec == SectionOfPart(i - 1, part)
         IN (IF part = <<>> THEN <<>>
             ELSE IF sec.header \notin {SubjectiveHeader, ObjectiveHeader,
                                        AssessmentHeader, PlanHeader}
             THEN <<>>
             ELSE <<SectionText(sec.header, sec.content)>>)
            \o FlattenedSectionsDropsUnknown(parts, i + 1)

RECURSIVE FlattenedSections(_, _)
\* the list "sections" built by the loop over enumerate(parts), from index i
FlattenedSections(parts, i) ==
    IF i > Len(parts) THEN <<>>
    ELSE LET part == Strip(parts[i])
             sec == SectionOfPart(i - 1, part)
         IN (IF part = <<>> THEN <<>>
             ELSE <<SectionText(sec.header, sec.content)>>)
            \o FlattenedSections(parts, i + 1)

NormalizeSoapMarkdown(md) ==
    IF md = <<>> THEN <<>>
    ELSE IF ~IsFlattened(md) THEN EnsureBulletPoints(md)
    ELSE Join(FlattenedSections(ReSplit(SectionMarker, md), 1), NL \o NL)

----------------------------------------------------------------------------
(* PDFService._remove_tamil_text *)

RECURSIVE SelectChars(_, _)
\* ''.join(c for c in line if Keep(c))
SelectChars(line, tamil) ==
    IF line = <<>> THEN <<>>
    ELSE (IF IsTamil(Head(line)) = tamil THEN <<Head(line)>> ELSE <<>>)
         \o SelectChars(Tail(line), tamil)

\* the line kept without its Tamil characters however many it has
CleanedLineAlwaysKept(line) == <<SelectChars(line, FALSE)>>

\* the line as the loop keeps it: dropped (no line) unless fewer than half
\* of its characters are Tamil, and then without its Tamil characters
CleanedLine(line) ==
    IF 2 * Len(SelectChars(line, TRUE)) < Len(line)
    THEN <<SelectChars(line, FALSE)>>
    ELSE <<>>

RECURSIVE CleanedLines(_)
CleanedLines(lines) ==
    IF lines = <<>> THEN <<>>
    ELSE CleanedLine(Head(lines)) \o CleanedLines(Tail(lines))

\* RemoveTamilText without the collapse of whitespace runs, so that the
\* lines it keeps stay on lines of their own
RemoveTamilTextKeepsLines(t) ==
    IF t = <<>> \/ t = None THEN t
    ELSE LET unbracketed == ReSub(TamilBracket, <<>>, t)
             result == Join(CleanedLines(Split(unbracketed, NL)), NL)
         IN Strip(ReSub(EmptyBrackets, <<>>, result))

RemoveTamilText(t) ==
    IF t = <<>> \/ t = None THEN t
    ELSE LET unbracketed == ReSub(TamilBracket, <<>>, t)
             result == Join(CleanedLines(Split(unbracketed, NL)), NL)
             spaced == ReSub(Whitespace, <<" ">>, result)
             emptied == ReSub(EmptyBrackets, <<>>, spaced)
         IN Strip(ReSub(Whitespace, <<" ">>, emptied))

----------------------------------------------------------------------------
(* PDFService._reconstruct_markdown *)

\* the text appended to "sections" when a section is closed: nothing when
\* there is neither a header nor content, the header (None: "## Subjective")
\* followed by the content lines otherwise
ClosedSection(current_header, current_content) ==
    IF current_header # None
    THEN <<current_header \o NL \o Join(current_content, NL)>>
    ELSE IF current_content # <<>>
    THEN <<SubjectiveHeader \o NL \o Join(current_content, NL)>>
    ELSE <<>>

\* the content of a piece that is no header, before it is appended
PartContent(current_header, part) ==
    LET unprefixed == IF current_header = None /\ StartsWith(part, SubjectiveWord)
                      THEN ReSub(SubjectivePrefix, <<>>, part)
                      ELSE part
    IN IF StartsWith(unprefixed, BulletPrefix)
       THEN Strip(SubSeq(unprefixed, 3, Len(unprefixed)))
       ELSE IF StartsWith(unprefixed, <<"-">>)
       THEN Strip(SubSeq(unprefixed, 2, Len(unprefixed)))
       ELSE unprefixed

\* one iteration of the loop over parts, over the state
\* (sections, current_header, current_content)
ReconstructPart(st, raw) ==
    LET part == Strip(raw)
    IN IF part = <<>> THEN st
       ELSE IF StartsWith(part, HeaderMark)
       THEN [sections |-> st.sections
                          \o ClosedSection(st.current_header, st.current_content),
             current_header |-> part, current_content |-> <<>>]
       ELSE LET c == PartContent(st.current_header, part)
            IN IF c # <<>>
               THEN [st EXCEPT !.current_content = Append(@, c)]
               ELSE st

RECURSIVE ReconstructParts(_, _, _)
ReconstructParts(st, parts, i) ==
    IF i > Len(parts) THEN st
    ELSE ReconstructParts(ReconstructPart(st, parts[i]), parts, i + 1)

ReconstructMarkdown(flattened_text) ==
    IF flattened_text = <<>> THEN <<>>
    ELSE LET st == ReconstructParts([sections |-> <<>>, current_header |-> None,
                                     current_content |-> <<>>],
                                    ReSplitGroup(HeaderToken, flattened_text), 1)
         IN Join(st.sections
                 \o ClosedSection(st.current_header, st.current_content),
                 NL \o NL)

----------------------------------------------------------------------------
(* The section assembler: the part of generate_consultation_pdf and of     *)
(* _generate_with_reportlab that turns consultation_data["soap_note"] into *)
(* soap_markdown.  A soap_note is [type |-> "str", value |-> a string],    *)
(* [type |-> "dict", value |-> a function from the keys it holds to their  *)
(* values] or [type |-> "NoneType"].                                       *)

\* d.get(k)
Get(d, k) == IF k \in DOMAIN d THEN d[k] ELSE None

\* d.get(k, "")
GetOrEmpty(d, k) == IF k \in DOMAIN d THEN d[k] ELSE <<>>

\* truth value of a str or None
Truthy(v) == v # None /\ v # <<>>

NoSoapNote ==
    <<"N", "o", " ", "S", "O", "A", "P", " ", "n", "o", "t", "e", " ",
      "a", "v", "a", "i", "l", "a", "b", "l", "e">>

\* FieldSection that emits the header of a field that is not truthy
FieldSectionAlways(d, key, header) ==
    IF Truthy(Get(d, key))
    THEN <<header \o NL
           \o Only({ConvertToBulletPoints(field_text) :
                       field_text \in {RemoveTamilText(d[key])}})>>
    ELSE <<header>>

\* the element of "sections" for one field, if the field is truthy
FieldSection(d, key, header) ==
    IF Truthy(Get(d, key))
    THEN <<header \o NL
           \o Only({ConvertToBulletPoints(field_text) :
                       field_text \in {RemoveTamilText(d[key])}})>>
    ELSE <<>>

\* the concatenation of a sequence of sequences
RECURSIVE Concat(_)
Concat(ss) == IF ss = <<>> THEN <<>> ELSE Head(ss) \o Concat(Tail(ss))

\* the fields in the order of the four "if soap_note.get(...)"
Fields ==
    <<[key |-> "subjective", header |-> SubjectiveHeader],
      [key |-> "objective", header |-> ObjectiveHeader],
      [key |-> "assessment", header |-> AssessmentHeader],
      [key |-> "plan", header |-> PlanHeader]>>

\* "Build from sections": the four fields in canonical order
BuildFromSections(d) ==
    Join(Concat([i \in 1..Len(Fields) |->
                    FieldSection(d, Fields[i].key, Fields[i].header)]),
         NL \o NL)

\* the dict branch once md is known
SoapMarkdownOfMd(d, md) ==
    IF ~Truthy(md) THEN BuildFromSections(d)
    ELSE Only({EnsureBulletPoints(soap_md) : soap_md \in {RemoveTamilText(md)}})

\* the dict branch without the reconstruction of a flattened markdown
SoapMarkdownOfDictAsGiven(d) ==
    SoapMarkdownOfMd(d, GetOrEmpty(d, "markdown"))

\* the dict branch
SoapMarkdownOfDict(d) ==
    LET given == GetOrEmpty(d, "markdown")
    IN Only({SoapMarkdownOfMd(d, md) :
                md \in {IF Truthy(given) /\ IsFlattened(given)
                        THEN ReconstructMarkdown(given) ELSE given}})

\* the second "if": the dict, str and other branches
SoapMarkdownOfNote(note) ==
    CASE note.type = "dict" -> SoapMarkdownOfDict(note.value)
      [] note.type = "str" ->
            Only({EnsureBulletPoints(soap_md) :
                    soap_md \in {RemoveTamilText(note.value)}})
      [] OTHER -> NoSoapNote

\* the first "if" turns a flattened str into a dict with its reconstruction
SoapMarkdownOf(note) ==
    Only({SoapMarkdownOfNote(n) :
            n \in {IF note.type = "str" /\ IsFlattened(note.value)
                   THEN [type |-> "dict",
                         value |-> [k \in {"markdown"} |->
                                      ReconstructMarkdown(note.value)]]
                   ELSE note}})

----------------------------------------------------------------------------
(* Inputs.  The strings a specification starts from are the concatenations *)
(* of at most a bounded number of pieces, the pieces being the tokens the  *)
(* code looks for (section markers, separators, periods, line breaks, the  *)
(* word Subjective) and plain text, together with the notes of the         *)
(* documented scenarios.                                                   *)

\* every concatenation of at most n pieces
StringsOver(pieces, n) ==
    {Concat(t) : t \in UNION {[1..k -> pieces] : k \in 0..n}}

\* 'Subjective - Abdominal pain. Sensation of a stomach ulcer. ## Plan - Further investigation. - Prescribe antacids. - Follow up.'
ScenarioA ==
    <<"S", "u", "b", "j", "e", "c", "t", "i", "v", "e", " ", "-", " ", "A",
      "b", "d", "o", "m", "i", "n", "a", "l", " ", "p", "a", "i", "n", ".",
      " ", "S", "e", "n", "s", "a", "t", "i", "o", "n", " ", "o", "f", " ",
      "a", " ", "s", "t", "o", "m", "a", "c", "h", " ", "u", "l", "c", "e",
      "r", ".", " ", "#", "#", " ", "P", "l", "a", "n", " ", "-", " ", "F",
      "u", "r", "t", "h", "e", "r", " ", "i", "n", "v", "e", "s", "t", "i",
      "g", "a", "t", "i", "o", "n", ".", " ", "-", " ", "P", "r", "e", "s",
      "c", "r", "i", "b", "e", " ", "a", "n", "t", "a", "c", "i", "d", "s",
      ".", " ", "-", " ", "F", "o", "l", "l", "o", "w", " ", "u", "p", ".">>

\* '## Subjective\n- Fever\n- Cough\n\n## Plan\n- Rest'
ScenarioB ==
    <<"#", "#", " ", "S", "u", "b", "j", "e", "c", "t", "i", "v", "e",
      "\n", "-", " ", "F", "e", "v", "e", "r", "\n", "-", " ", "C", "o",
      "u", "g", "h", "\n", "\n", "#", "#", " ", "P", "l", "a", "n", "\n",
      "-", " ", "R", "e", "s", "t">>

\* a flattened note that names Plan before Objective and nothing else
OutOfOrderNote ==
    <<"#", "#", " ", "P", "l", "a", "n", " ", "-", " ", "r", "e", "s", "t",
      " ", "#", "#", " ", "O", "b", "j", "e", "c", "t", "i", "v", "e", " ",
      "-", " ", "b", "p">>

MaxPieces == 4

NormPieces ==
    {<<"#", "#", " ">>, <<"P", "l", "a", "n">>, SubjectiveWord, DashSep,
     <<"a">>, <<".">>, <<" ">>, NL, BulletPrefix}

NormInputs ==
    StringsOver(NormPieces, MaxPieces) \cup {ScenarioA, ScenarioB, OutOfOrderNote}

----------------------------------------------------------------------------
(* Specifications.  Each one runs one entry point of PDFService on every   *)
(* input of its set; the variables of the other entry points stay Unused.  *)

NormIdle == markdown = Unused /\ normalized = Unused /\ renormalized = Unused
BulletIdle == content = Unused /\ bulleted = Unused /\ rebulleted = Unused
FilterIdle == text = Unused /\ filtered = Unused
AssembleIdle == soap_note = Unused /\ soap_markdown = Unused
FontsIdle ==
    /\ calls = Unused /\ registry = Unused
    /\ registrations = Unused /\ font_files = Unused
EndpointIdle ==
    /\ stored = Unused /\ current_user = Unused
    /\ consultation = Unused /\ response = Unused
StoryIdle ==
    /\ story = Unused /\ walk_lines = Unused /\ line_no = Unused
    /\ current_section = Unused /\ current_bullets = Unused
    /\ entities_text = Unused /\ icd_text = Unused
RenderIdle ==
    /\ WEASYPRINT_AVAILABLE = Unused /\ USE_REPORTLAB = Unused
    /\ consultation_data = Unused /\ pdf_buffer = Unused
    /\ raised = Unused /\ outcome = Unused

(* _normalize_soap_markdown, and a second call of it on its own result *)

InitNormalize ==
    /\ pc = "input"
    /\ markdown \in NormInputs
    /\ normalized = Unused /\ renormalized = Unused
    /\ BulletIdle /\ FilterIdle /\ AssembleIdle /\ RenderIdle
    /\ FontsIdle /\ EndpointIdle /\ StoryIdle

Normalize ==
    /\ pc = "input"
    /\ normalized' = NormalizeSoapMarkdown(markdown)
    /\ pc' = "normalized"
    /\ UNCHANGED <<markdown, renormalized, bulletVars, filterVars,
                   assembleVars, renderVars, laterVars>>

Renormalize ==
    /\ pc = "normalized"
    /\ renormalized' = NormalizeSoapMarkdown(normalized)
    /\ pc' = "renormalized"
    /\ UNCHANGED <<markdown, normalized, bulletVars, filterVars,
                   assembleVars, renderVars, laterVars>>

NextNormalize == Normalize \/ Renormalize

SpecNormalize == InitNormalize /\ [][NextNormalize]_vars

----------------------------------------------------------------------------
(* Reading a markdown document *)

Lines(md) == Split(md, NL)

IsHeaderLine(line) == StartsWith(Strip(line), HeaderMark)
IsBlankLine(line) == Strip(line) = <<>>

\* the header lines of a document, in order
HeaderLines(md) == SelectSeq(Lines(md), IsHeaderLine)

\* the lines of a document that are not blank, in order
NonBlankLines(md) == SelectSeq(Lines(md), LAMBDA l : ~IsBlankLine(l))

CanonicalHeaders ==
    <<SubjectiveHeader, ObjectiveHeader, AssessmentHeader, PlanHeader>>

----------------------------------------------------------------------------
(* Claims about _normalize_soap_markdown *)

\* C1: normalizing the markdown that normalize produced returns that
\* markdown unchanged, for every input (flattened or multi-line).
C1_NormalizeIdempotent ==
    pc = "renormalized" => renormalized = normalized

\* C2 as stated: for every input the output of normalize has exactly the
\* four headers Subjective, Objective, Assessment, Plan, once each and in
\* that order.
C2_FourCanonicalHeaders ==
    pc = "normalized" => HeaderLines(normalized) = CanonicalHeaders

RECURSIVE PieceHeaders(_, _)
\* the headers named by the pieces of a flattened note from piece i on: the
\* leading piece is Subjective, a later piece names its header by the text
\* before its first " - "; an empty piece names none
PieceHeaders(pieces, i) ==
    IF i > Len(pieces) THEN <<>>
    ELSE LET part == Strip(pieces[i])
         IN (IF part = <<>> THEN <<>>
             ELSE IF i = 1 THEN <<SubjectiveHeader>>
             ELSE <<<<"#", "#", " ">> \o Strip(Split(part, DashSep)[1])>>)
            \o PieceHeaders(pieces, i + 1)

\* the headers an input names, in the order it names them
InputHeaders(md) ==
    IF IsFlattened(md) THEN PieceHeaders(ReSplit(SectionMarker, md), 1)
    ELSE HeaderLines(md)

\* C2 (amended): the output of normalize has a header for exactly the
\* sections the input names, in the order and as often as the input names
\* them (the leading unmarked piece of a flattened note counting as
\* Subjective): no missing section is synthesized, none is re-sorted,
\* none is renamed.
C2_HeadersFollowInput ==
    pc = "normalized" => HeaderLines(normalized) = InputHeaders(markdown)

\* a note that names Plan before Objective has been normalized: its two
\* headers come out in that order and no other header is added
C2_Witness ==
    /\ pc = "normalized"
    /\ markdown = OutOfOrderNote
    /\ HeaderLines(normalized) = <<PlanHeader, ObjectiveHeader>>

\* the document Scenario A expects, blank lines aside
ScenarioAExpected ==
    <<<<"#", "#", " ", "S", "u", "b", "j", "e", "c", "t", "i", "v", "e">>,
      <<"-", " ", "A", "b", "d", "o", "m", "i", "n", "a", "l", " ", "p", "a",
        "i", "n">>,
      <<"-", " ", "S", "e", "n", "s", "a", "t", "i", "o", "n", " ", "o", "f",
        " ", "a", " ", "s", "t", "o", "m", "a", "c", "h", " ", "u", "l", "c",
        "e", "r">>,
      <<"#", "#", " ", "O", "b", "j", "e", "c", "t", "i", "v", "e">>,
      <<"#", "#", " ", "A", "s", "s", "e", "s", "s", "m", "e", "n", "t">>,
      <<"#", "#", " ", "P", "l", "a", "n">>,
      <<"-", " ", "F", "u", "r", "t", "h", "e", "r", " ", "i", "n", "v", "e",
        "s", "t", "i", "g", "a", "t", "i", "o", "n">>,
      <<"-", " ", "P", "r", "e", "s", "c", "r", "i", "b", "e", " ", "a", "n",
        "t", "a", "c", "i", "d", "s">>,
      <<"-", " ", "F", "o", "l", "l", "o", "w", " ", "u", "p">>>>

\* the document the code produces for Scenario A, blank lines aside
ScenarioAProduced ==
    <<<<"#", "#", " ", "S", "u", "b", "j", "e", "c", "t", "i", "v", "e">>,
      <<"-", " ", "A", "b", "d", "o", "m", "i", "n", "a", "l", " ", "p", "a",
        "i", "n", ".", " ", "S", "e", "n", "s", "a", "t", "i", "o", "n", " ",
        "o", "f", " ", "a", " ", "s", "t", "o", "m", "a", "c", "h", " ", "u",
        "l", "c", "e", "r">>,
      <<"#", "#", " ", "P", "l", "a", "n">>,
      <<"-", " ", "F", "u", "r", "t", "h", "e", "r", " ", "i", "n", "v", "e",
        "s", "t", "i", "g", "a", "t", "i", "o", "n">>,
      <<"-", " ", "P", "r", "e", "s", "c", "r", "i", "b", "e", " ", "a", "n",
        "t", "a", "c", "i", "d", "s">>,
      <<"-", " ", "F", "o", "l", "l", "o", "w", " ", "u", "p">>>>

\* C5 as stated: Scenario A gives Subjective bullets "Abdominal pain" and
\* "Sensation of a stomach ulcer", the three Plan bullets, and empty
\* Objective and Assessment sections.
C5_ScenarioAAsStated ==
    (pc = "normalized" /\ markdown = ScenarioA)
        => NonBlankLines(normalized) = ScenarioAExpected

\* C5 (amended): Scenario A gives the single Subjective bullet "Abdominal
\* pain. Sensation of a stomach ulcer" (a period followed by a space is no
\* separator), the three Plan bullets, and no Objective or Assessment
\* section; in general the non-empty leading piece of a flattened note
\* becomes the Subjective section, and every line of the output is blank,
\* a header or a bullet.
C5_ScenarioA ==
    pc = "normalized" =>
        /\ markdown = ScenarioA => NonBlankLines(normalized) = ScenarioAProduced
        /\ IsFlattened(markdown) =>
            /\ Strip(ReSplit(SectionMarker, markdown)[1]) # <<>>
                   => Lines(normalized)[1] = SubjectiveHeader
            /\ \A i \in 1..Len(Lines(normalized)) :
                   \/ Lines(normalized)[i] = <<>>
                   \/ StartsWith(Lines(normalized)[i], HeaderMark)
                   \/ StartsWith(Lines(normalized)[i], BulletPrefix)

\* Scenario A has been normalized
C5_Witness ==
    pc = "normalized" /\ markdown = ScenarioA /\ Len(Lines(normalized)) = 7

\* C6: for multi-line input whose content lines all start with "- ",
\* normalize leaves every header line and every bullet line unchanged in
\* text and in order.
C6_BulletedInputUnchanged ==
    (/\ pc = "normalized"
     /\ Contains(markdown, NL)
     /\ \A i \in 1..Len(Lines(markdown)) :
            \/ IsBlankLine(Lines(markdown)[i])
            \/ IsHeaderLine(Lines(markdown)[i])
            \/ StartsWith(Lines(markdown)[i], BulletPrefix))
        => NonBlankLines(normalized) = NonBlankLines(markdown)

\* the piece of a flattened note before its first section marker, stripped
LeadingPiece(md) == Strip(ReSplit(SectionMarker, md)[1])

\* a flattened note with a non-empty piece before its first marker has been
\* normalized
LeadingPieceNormalized ==
    /\ pc = "normalized"
    /\ IsFlattened(markdown)
    /\ LeadingPiece(markdown) # <<>>

\* a bullet line whose text begins with the word Subjective
LeadsWithSubjective(line) ==
    LET lead == BulletPrefix \o SubjectiveWord
    IN /\ StartsWith(line, lead)
       /\ ~IsWord(At(line, Len(lead) + 1))

\* C20 as stated: the leading piece gets the header Subjective, and the
\* word Subjective never remains as the leading content of that section.
C20_SubjectiveNeverLeads ==
    LeadingPieceNormalized
        => /\ Lines(normalized)[1] = SubjectiveHeader
           /\ Len(Lines(normalized)) >= 2
                => ~LeadsWithSubjective(Lines(normalized)[2])

\* the leading piece without one "Subjective -" prefix, if it has one
WithoutSubjectivePrefix(piece) ==
    LET e == MatchSubjectivePrefix(piece, 1)
    IN IF e # 0 THEN SubSeq(piece, e, Len(piece)) ELSE piece

\* C20 (amended): the leading piece gets the header Subjective; its content
\* is the piece without the prefix "Subjective -" when the piece begins with
\* the word followed by a hyphen, and the whole piece otherwise, the word
\* Subjective included.
C20_PrefixStrippedBeforeHyphen ==
    LeadingPieceNormalized
        => /\ Lines(normalized)[1] = SubjectiveHeader
           /\ Split(normalized, NL \o NL)[1] =
                SectionText(SubjectiveHeader,
                            WithoutSubjectivePrefix(LeadingPiece(markdown)))

\* the leading piece is the word Subjective with no hyphen after it, and the
\* word is the bullet of the Subjective section
C20_Witness ==
    /\ LeadingPieceNormalized
    /\ LeadingPiece(markdown) = SubjectiveWord
    /\ Lines(normalized)[1] = SubjectiveHeader
    /\ Lines(normalized)[2] = BulletPrefix \o SubjectiveWord

----------------------------------------------------------------------------
\* the sections of a normalized flattened note: the texts between its
\* blank lines
SectionBlocks(md) == Split(md, NL \o NL)

\* the pieces of a flattened note that are not empty once stripped
NonEmptyPieces(md) ==
    LET pieces == ReSplit(SectionMarker, md)
    IN SelectSeq([i \in DOMAIN pieces |->
                     [index |-> i, piece |-> Strip(pieces[i])]],
                 LAMBDA p : p.piece # <<>>)

\* the header word of a marked piece (the text before its first " - ") and
\* the content after it
HeaderWord(piece) == Strip(Split(piece, DashSep)[1])
PairContent(piece) ==
    IF Contains(piece, DashSep)
    THEN Strip(SubSeq(piece, Len(Split(piece, DashSep)[1]) + Len(DashSep) + 1,
                      Len(piece)))
    ELSE <<>>

CanonicalWords ==
    {SubjectiveWord, <<"O", "b", "j", "e", "c", "t", "i", "v", "e">>,
     <<"A", "s", "s", "e", "s", "s", "m", "e", "n", "t">>, <<"P", "l", "a", "n">>}

\* C21 as stated: splitting a flattened note drops every pair whose header
\* word is not Subjective, Objective, Assessment or Plan, so that every
\* header of the output is one of these four.
C21_UnknownPairsDropped ==
    (pc = "normalized" /\ IsFlattened(markdown)) =>
        \A i \in DOMAIN HeaderLines(normalized) :
            HeaderLines(normalized)[i] \in
                {SubjectiveHeader, ObjectiveHeader, AssessmentHeader, PlanHeader}

\* C21 (amended): splitting a flattened note drops no pair, whatever its
\* header word: every non-empty piece yields one section of the output, in
\* order; the section of a marked piece opens with "## " and the piece's
\* header word as it stands, and when the pair has content the header is
\* followed by at least one bullet line and by bullet lines only.
C21_UnknownPairsKept ==
    (pc = "normalized" /\ IsFlattened(markdown)) =>
        LET pairs == NonEmptyPieces(markdown)
            blocks == SectionBlocks(normalized)
        IN /\ pairs # <<>> => Len(blocks) = Len(pairs)
           /\ \A k \in DOMAIN pairs :
                pairs[k].index > 1 =>
                  LET own == Lines(blocks[k])
                  IN /\ own[1] = <<"#", "#", " ">> \o HeaderWord(pairs[k].piece)
                     /\ PairContent(pairs[k].piece) # <<>> => Len(own) > 1
                     /\ \A n \in 2..Len(own) : StartsWith(own[n], BulletPrefix)

\* the flattened note "## a - a", whose only pair has the header word "a",
\* has been split: the pair is in the output with its header and its bullet
C21_Witness ==
    /\ pc = "normalized"
    /\ markdown = <<"#", "#", " ", "a", " ", "-", " ", "a">>
    /\ HeaderWord(<<"a", " ", "-", " ", "a">>) \notin CanonicalWords
    /\ normalized = <<"#", "#", " ", "a", "\n", "-", " ", "a">>

\* C24: after normalize, every line that is neither empty nor a header
\* starts with "- ", also a content line that stands before the first header
\* and the lines of a text without any header.
C24_EveryContentLineBulleted ==
    pc = "normalized" =>
        \A i \in DOMAIN Lines(normalized) :
            \/ IsBlankLine(Lines(normalized)[i])
            \/ IsHeaderLine(Lines(normalized)[i])
            \/ StartsWith(Lines(normalized)[i], BulletPrefix)

\* the text "a", without any section marker, has been normalized and came
\* back as it was, without a bullet
C24_Witness ==
    /\ pc = "normalized"
    /\ markdown = <<"a">>
    /\ ~Contains(markdown, HeaderMark)
    /\ normalized = <<"a">>

\* what the multi-line walk gives for line i of its input: a header line
\* as it is, an empty line for a blank line, the bullets of a content line
\* that has a header before it, and a content line without a header before
\* it as it is
LineOutput(ls, i) ==
    IF IsHeaderLine(ls[i]) THEN <<ls[i]>>
    ELSE IF IsBlankLine(ls[i]) THEN << <<>> >>
    ELSE IF \E j \in 1..(i - 1) : IsHeaderLine(ls[j])
    THEN ProcessSectionLine(Strip(ls[i]))
    ELSE <<ls[i]>>

\* C25: in the multi-line walk a blank line is kept as an empty line and
\* does not end the section: the output is, line by line and in input
\* order, the header lines unchanged, an empty line for each blank line and
\* the bullets of each content line, so that the bullets of a content line
\* stand after the header that last preceded the line and before the next
\* header, also when a blank line stands between the header and the line.
C25_BlankLineKeepsSection ==
    (pc = "normalized" /\ markdown # <<>> /\ ~IsFlattened(markdown)) =>
        LET ls == Lines(markdown)
        IN /\ normalized = Join(Concat([i \in DOMAIN ls |-> LineOutput(ls, i)]), NL)
           /\ \A i \in DOMAIN ls :
                (/\ ~IsHeaderLine(ls[i]) /\ ~IsBlankLine(ls[i])
                 /\ \E j \in 1..(i - 1) : IsHeaderLine(ls[j]))
                    => \A n \in DOMAIN LineOutput(ls, i) :
                           StartsWith(LineOutput(ls, i)[n], BulletPrefix)

\* "## \n\na" has been normalized: the blank line after the header is kept
\* and the content line after it is bulleted
C25_Witness ==
    /\ pc = "normalized"
    /\ markdown = <<"#", "#", " ", "\n", "\n", "a">>
    /\ normalized = <<"#", "#", " ", "\n", "\n", "-", " ", "a">>

----------------------------------------------------------------------------
(* _convert_to_bullet_points, and a second call of it on its own items *)

\* 'post-op care advised'
ScenarioD ==
    <<"p", "o", "s", "t", "-", "o", "p", " ", "c", "a", "r", "e", " ", "a",
      "d", "v", "i", "s", "e", "d">>

MaxContentLen == 5

ContentChars == {<<"a">>, <<"-">>, <<" ">>, <<".">>, NL}

\* '- a - b': one line that already starts with the bullet marker
BulletedLine == <<"-", " ", "a", " ", "-", " ", "b">>

ContentInputs ==
    StringsOver(ContentChars, MaxContentLen) \cup {ScenarioD, BulletedLine}

\* the bullet items of an output of the Bulleter: its lines, each without
\* its "- " prefix
Items(out) ==
    IF out = <<>> THEN <<>>
    ELSE [i \in 1..Len(Lines(out)) |->
            IF StartsWith(Lines(out)[i], BulletPrefix)
            THEN SubSeq(Lines(out)[i], 3, Len(Lines(out)[i]))
            ELSE Lines(out)[i]]

\* items re-joined as lines, each with the "- " prefix
Rejoin(items) ==
    Join([i \in 1..Len(items) |-> BulletPrefix \o items[i]], NL)

InitBullet ==
    /\ pc = "input"
    /\ content \in ContentInputs
    /\ bulleted = Unused /\ rebulleted = Unused
    /\ NormIdle /\ FilterIdle /\ AssembleIdle /\ RenderIdle
    /\ FontsIdle /\ EndpointIdle /\ StoryIdle

Bullet ==
    /\ pc = "input"
    /\ bulleted' = ConvertToBulletPoints(content)
    /\ pc' = "bulleted"
    /\ UNCHANGED <<content, rebulleted, normVars, filterVars, assembleVars,
                   renderVars, laterVars>>

Rebullet ==
    /\ pc = "bulleted"
    /\ rebulleted' = ConvertToBulletPoints(Rejoin(Items(bulleted)))
    /\ pc' = "rebulleted"
    /\ UNCHANGED <<content, bulleted, normVars, filterVars, assembleVars,
                   renderVars, laterVars>>

NextBullet == Bullet \/ Rebullet

SpecBullet == InitBullet /\ [][NextBullet]_vars

\* C3: for non-blank content every bullet item is non-empty, trimmed, does
\* not start with "- " and contains no line break.
C3_ItemsWellFormed ==
    (pc = "bulleted" /\ Strip(content) # <<>>) =>
        \A i \in 1..Len(Items(bulleted)) :
            /\ Items(bulleted)[i] # <<>>
            /\ Strip(Items(bulleted)[i]) = Items(bulleted)[i]
            /\ ~StartsWith(Items(bulleted)[i], BulletPrefix)
            /\ ~Contains(Items(bulleted)[i], NL)

\* a hyphen with whitespace on both sides
HasSpacedHyphen(c) ==
    \E i \in 2..(Len(c) - 1) :
        IsSpace(c[i - 1]) /\ c[i] = "-" /\ IsSpace(c[i + 1])

\* a hyphen with whitespace after it
HasHyphenBeforeSpace(c) ==
    \E i \in 1..(Len(c) - 1) : c[i] = "-" /\ IsSpace(c[i + 1])

\* a period-hyphen compound: a period, whitespace or none, a hyphen
HasPeriodHyphen(c) ==
    \E i \in 1..Len(c) : c[i] = "." /\ At(c, SkipSpace(c, i + 1)) = "-"

\* the one bullet a content without separator gives: the content trimmed,
\* without its trailing periods (the trimmed content when nothing else is
\* left)
OneBullet(c) ==
    BulletPrefix \o (IF RStripDots(Strip(c)) # <<>> THEN RStripDots(Strip(c))
                     ELSE Strip(c))

\* C8 as stated: content is split only at a hyphen with whitespace on both
\* sides or at a period-hyphen compound, so content (on one line) with
\* neither gives exactly one bullet item.
C8_SplitsOnlyAtSpacedHyphen ==
    (/\ pc = "bulleted"
     /\ Strip(content) # <<>>
     /\ ~Contains(content, NL)
     /\ ~HasSpacedHyphen(content)
     /\ ~HasPeriodHyphen(content))
        => Len(Items(bulleted)) = 1

\* C8 (amended): content is split only at a hyphen that is followed by
\* whitespace (whitespace before it is not needed) or at a period-hyphen
\* compound; content with neither, such as "post-op care advised", gives
\* exactly one bullet, the whole content (trimmed, trailing periods
\* removed).
C8_SplitsOnlyAtHyphenBeforeSpace ==
    (/\ pc = "bulleted"
     /\ Strip(content) # <<>>
     /\ ~HasHyphenBeforeSpace(content)
     /\ ~HasPeriodHyphen(content))
        => bulleted = OneBullet(content)

\* Scenario D has been bulleted: one bullet, the hyphen inside "post-op" kept
C8_Witness ==
    /\ pc = "bulleted"
    /\ content = ScenarioD
    /\ bulleted = BulletPrefix \o ScenarioD

\* C9: bulleting the re-joined items of bullet(c) gives the same ordered
\* list of items.
C9_BulletIdempotent ==
    pc = "rebulleted" => Items(rebulleted) = Items(bulleted)

\* the candidates of the Bulleter: the pieces between the separators
Candidates(c) == ReSplit(BulletSeparator, c)

\* a candidate trimmed and without one trailing period
TrimmedOnePeriod(cand) ==
    IF At(Strip(cand), Len(Strip(cand))) = "."
    THEN SubSeq(Strip(cand), 1, Len(Strip(cand)) - 1)
    ELSE Strip(cand)

\* a candidate trimmed and without any of its trailing periods: the prefix
\* of the trimmed candidate that does not end with a period and is followed
\* by periods only
TrimmedNoPeriods(cand) ==
    SubSeq(Strip(cand), 1,
           CHOOSE n \in 0..Len(Strip(cand)) :
               /\ \A j \in (n + 1)..Len(Strip(cand)) : Strip(cand)[j] = "."
               /\ n = 0 \/ Strip(cand)[n] # ".")

\* one bullet line for each text that is not empty, in order
NonEmptyBullets(texts) ==
    LET kept == SelectSeq(texts, LAMBDA t : t # <<>>)
    IN [i \in DOMAIN kept |-> BulletPrefix \o kept[i]]

\* C22 as stated: every candidate is trimmed and loses exactly one trailing
\* period (a candidate ending in several periods keeps all but the last);
\* the candidates that are not empty then are the bullets, in input order.
C22_OnePeriodStripped ==
    LET cands == Candidates(content)
        bullets == NonEmptyBullets([i \in DOMAIN cands |->
                                       TrimmedOnePeriod(cands[i])])
    IN (pc = "bulleted" /\ Strip(content) # <<>> /\ bullets # <<>>) =>
           bulleted = Join(bullets, NL)

\* C22 (amended): every candidate is trimmed and then loses all of its
\* trailing periods; the candidates that are not empty then are the
\* bullets, one each and in input order.  When no candidate is left, the
\* trimmed content is the one bullet.
C22_AllPeriodsStripped ==
    LET cands == Candidates(content)
        bullets == NonEmptyBullets([i \in DOMAIN cands |->
                                       TrimmedNoPeriods(cands[i])])
    IN (pc = "bulleted" /\ Strip(content) # <<>>) =>
           bulleted = IF bullets # <<>> THEN Join(bullets, NL)
                      ELSE IF StartsWith(Strip(content), <<"-">>)
                      THEN Strip(content)
                      ELSE BulletPrefix \o Strip(content)

\* "a..-a" has been bulleted: two bullets, the first candidate "a." without
\* its period
C22_Witness ==
    /\ pc = "bulleted"
    /\ content = <<"a", ".", ".", "-", "a">>
    /\ Candidates(content) = << <<"a", ".">>, <<"a">> >>
    /\ bulleted = <<"-", " ", "a", "\n", "-", " ", "a">>

\* C23: a line that already starts with "- " is emitted unchanged by the
\* Bulleter, even when its text holds " - " or a period-hyphen inside: it is
\* never split into several bullets.
C23_BulletLineUnchanged ==
    (/\ pc = "bulleted"
     /\ StartsWith(content, BulletPrefix)
     /\ ~Contains(content, NL)
     /\ Strip(content) = content)
        => bulleted = content

\* the line "- a - b" has been given to the Bulleter, and two bullets came
\* out of it
C23_Witness ==
    /\ pc = "bulleted"
    /\ content = BulletedLine
    /\ bulleted = <<"-", " ", "a", "\n", "-", " ", "b">>

----------------------------------------------------------------------------
(* _remove_tamil_text *)

MaxTextLen == 5

TextChars ==
    {<<"[">>, <<"]">>, <<"U+0BFF">>, <<"a">>, <<" ">>, NL}

TextInputs == StringsOver(TextChars, MaxTextLen)

InitFilter ==
    /\ pc = "input"
    /\ text \in TextInputs
    /\ filtered = Unused
    /\ NormIdle /\ BulletIdle /\ AssembleIdle /\ RenderIdle
    /\ FontsIdle /\ EndpointIdle /\ StoryIdle

Filter ==
    /\ pc = "input"
    /\ filtered' = RemoveTamilText(text)
    /\ pc' = "filtered"
    /\ UNCHANGED <<text, normVars, bulletVars, assembleVars, renderVars, laterVars>>

NextFilter == Filter

SpecFilter == InitFilter /\ [][NextFilter]_vars

\* a bracketed span holding a Tamil character: "[", no "]" up to a closing
\* "]", a character of U+0B80..U+0BFF in between
HasTamilSpan(s) ==
    \E i \in 1..Len(s) : \E j \in (i + 1)..Len(s) :
        /\ s[i] = "[" /\ s[j] = "]"
        /\ \A m \in (i + 1)..(j - 1) : s[m] # "]"
        /\ \E k \in (i + 1)..(j - 1) : CodePoint(s[k]) \in TamilFirst..TamilLast

\* C4: the output of the filter for a text that contains a bracketed span
\* with a Tamil character contains no bracketed span with a Tamil character.
C4_NoTamilSpanLeft ==
    (pc = "filtered" /\ HasTamilSpan(text)) => ~HasTamilSpan(filtered)

\* a text with a Tamil span and text outside it has been filtered, and the
\* text outside the span is still there
C4_Witness ==
    /\ pc = "filtered"
    /\ HasTamilSpan(text)
    /\ text = <<"a", "[", "U+0BFF", "]", "a">>
    /\ filtered = <<"a", "a">>

\* the number of characters of s that are ch
CountOf(s, ch) == Cardinality({i \in DOMAIN s : s[i] = ch})

\* the number of Tamil characters of a line
TamilCount(line) == Cardinality({i \in DOMAIN line : IsTamil(line[i])})

\* the text has no bracket that the bracket patterns could match
NoBracket(s) == CountOf(s, "[") = 0

\* C14 as stated: the filter never discards a line; every character of the
\* text that is not Tamil (here the letter a, which no pattern removes) is
\* still in the result.
C14_NoLineDiscarded ==
    (pc = "filtered" /\ NoBracket(text))
        => CountOf(filtered, "a") = CountOf(text, "a")

RECURSIVE CountInLightLines(_, _)
\* the number of ch in the lines of which fewer than half the characters
\* are Tamil
CountInLightLines(lines, ch) ==
    IF lines = <<>> THEN 0
    ELSE (IF 2 * TamilCount(Head(lines)) < Len(Head(lines))
          THEN CountOf(Head(lines), ch) ELSE 0)
         + CountInLightLines(Tail(lines), ch)

\* C14 (amended): a line of which at least half the characters are Tamil
\* is discarded whole, its other characters included; a line with fewer
\* Tamil characters keeps every character that is not Tamil.
C14_HeavyLinesDiscarded ==
    (pc = "filtered" /\ NoBracket(text))
        => /\ CountOf(filtered, "a") = CountInLightLines(Split(text, NL), "a")
           /\ CountOf(filtered, "U+0BFF") = 0

\* a line with two Tamil characters and a letter is gone, letter included,
\* and the line after it is kept
C14_Witness ==
    /\ pc = "filtered"
    /\ text = <<"U+0BFF", "U+0BFF", "a", "\n", "a">>
    /\ filtered = <<"a">>

\* the lines of a text the filter retains (fewer than half of their
\* characters Tamil), each without its Tamil characters
RetainedLines(t) ==
    LET kept == SelectSeq(Lines(t), LAMBDA l : 2 * TamilCount(l) < Len(l))
    IN [i \in DOMAIN kept |-> SelectChars(kept[i], FALSE)]

\* the words of a string: its pieces between whitespace runs
Words(s) == SelectSeq(ReSplit(Whitespace, s), LAMBDA w : w # <<>>)

----------------------------------------------------------------------------
(* The section assembler on every soap_note of a set *)

\* 'a ## Plan - b'
FlattenedMarkdown ==
    <<"a", " ", "#", "#", " ", "P", "l", "a", "n", " ", "-", " ", "b">>

\* 'b - c.'
SeparatedText ==
    <<"b", " ", "-", " ", "c", ".">>

\* '## Plan\nc - d'
MultiLineMarkdown ==
    <<"#", "#", " ", "P", "l", "a", "n", "\n", "c", " ", "-", " ", "d">>

\* 'BP 120/80'
BP ==
    <<"B", "P", " ", "1", "2", "0", "/", "8", "0">>

\* 'Paracetamol 500mg - TID'
Paracetamol ==
    <<"P", "a", "r", "a", "c", "e", "t", "a", "m", "o", "l", " ", "5", "0",
      "0", "m", "g", " ", "-", " ", "T", "I", "D">>

\* the values a key of a soap_note dict holds
NoteValues ==
    {None, <<>>, SeparatedText, <<"a", " ", "[", "U+0B95", "]">>,
     FlattenedMarkdown}

NoteKeys == {"markdown", "subjective", "objective", "assessment", "plan"}

\* Scenario C: subjective "", assessment None, no markdown
ScenarioC ==
    [type |-> "dict",
     value |-> [k \in {"subjective", "objective", "assessment", "plan"} |->
                  CASE k = "subjective" -> <<>>
                    [] k = "objective" -> BP
                    [] k = "assessment" -> None
                    [] k = "plan" -> Paracetamol]]

\* '## Objective\n- BP 120/80\n\n## Plan\n- Paracetamol 500mg\n- TID'
ScenarioCProduced ==
    <<"#", "#", " ", "O", "b", "j", "e", "c", "t", "i", "v", "e", "\n",
      "-", " ", "B", "P", " ", "1", "2", "0", "/", "8", "0", "\n", "\n",
      "#", "#", " ", "P", "l", "a", "n", "\n", "-", " ", "P", "a", "r",
      "a", "c", "e", "t", "a", "m", "o", "l", " ", "5", "0", "0", "m", "g",
      "\n", "-", " ", "T", "I", "D">>

SoapNotes ==
    {[type |-> "dict", value |-> d] :
        d \in UNION {[keys -> NoteValues] : keys \in SUBSET NoteKeys}}
    \cup {[type |-> "str", value |-> v] : v \in NoteValues \ {None}}
    \cup {[type |-> "NoneType"], ScenarioC}
    \cup {[type |-> "dict", value |-> d] :
            d \in [{"markdown"} -> {MultiLineMarkdown}]
                    \cup [{"markdown", "plan"} -> {MultiLineMarkdown}]}

InitAssemble ==
    /\ pc = "input"
    /\ soap_note \in SoapNotes
    /\ soap_markdown = Unused
    /\ NormIdle /\ BulletIdle /\ FilterIdle /\ RenderIdle
    /\ FontsIdle /\ EndpointIdle /\ StoryIdle

Assemble ==
    /\ pc = "input"
    /\ soap_markdown' = SoapMarkdownOf(soap_note)
    /\ pc' = "assembled"
    /\ UNCHANGED <<soap_note, normVars, bulletVars, filterVars, renderVars, laterVars>>

NextAssemble == Assemble

SpecAssemble == InitAssemble /\ [][NextAssemble]_vars

\* the soap_note is a dict that supplies no combined markdown
NoMarkdownSupplied(note) ==
    note.type = "dict" /\ ~Truthy(Get(note.value, "markdown"))

\* C7 as stated: without combined markdown the assembler emits all four
\* headers in canonical order, whichever fields are present.
C7_AllFourHeaders ==
    (pc = "assembled" /\ NoMarkdownSupplied(soap_note))
        => HeaderLines(soap_markdown) = CanonicalHeaders

\* the headers of the fields of d that are present and not empty, in
\* canonical order
PresentHeaders(d) ==
    (IF Truthy(Get(d, "subjective")) THEN <<SubjectiveHeader>> ELSE <<>>)
    \o (IF Truthy(Get(d, "objective")) THEN <<ObjectiveHeader>> ELSE <<>>)
    \o (IF Truthy(Get(d, "assessment")) THEN <<AssessmentHeader>> ELSE <<>>)
    \o (IF Truthy(Get(d, "plan")) THEN <<PlanHeader>> ELSE <<>>)

\* C7 (amended): without combined markdown the assembler emits, in
\* canonical order, the header of each field that is present and not empty,
\* and no header for a field that is absent, None or empty (Scenario C
\* gives only the Objective section with the bullet "BP 120/80" and the
\* Plan section with the bullets "Paracetamol 500mg" and "TID").
C7_HeadersOfPresentFields ==
    (pc = "assembled" /\ NoMarkdownSupplied(soap_note)) =>
        /\ HeaderLines(soap_markdown) = PresentHeaders(soap_note.value)
        /\ soap_note = ScenarioC => soap_markdown = ScenarioCProduced

\* Scenario C has been assembled: two of the four headers are emitted
C7_Witness ==
    /\ pc = "assembled"
    /\ soap_note = ScenarioC
    /\ HeaderLines(soap_markdown) = <<ObjectiveHeader, PlanHeader>>

\* the soap_note is a dict that carries a non-empty combined markdown
MarkdownSupplied(note) ==
    note.type = "dict" /\ Truthy(Get(note.value, "markdown"))

\* the note reduced to its markdown key
MarkdownOnly(note) ==
    [type |-> "dict", value |-> [k \in {"markdown"} |-> note.value[k]]]

\* C13 as stated: with a combined markdown the assembler returns exactly
\* the filtered markdown, with no other change.
C13_ExactlyFiltered ==
    (pc = "assembled" /\ MarkdownSupplied(soap_note))
        => soap_markdown = RemoveTamilText(soap_note.value["markdown"])

\* the markdown the filter is given: the reconstruction of a flattened one
Reconstructed(md) ==
    IF IsFlattened(md) THEN ReconstructMarkdown(md) ELSE md

\* C13 (amended): with a combined markdown the separate fields do not
\* influence the result, and the result is the filter applied to the
\* markdown, which is reconstructed first when it is flattened; the
\* re-bulleting that follows the filter changes nothing.
C13_FilteredReconstruction ==
    (pc = "assembled" /\ MarkdownSupplied(soap_note))
        => /\ soap_markdown = SoapMarkdownOf(MarkdownOnly(soap_note))
           /\ soap_markdown =
                RemoveTamilText(Reconstructed(soap_note.value["markdown"]))

\* a flattened markdown beside a non-empty subjective field: the result
\* names a Subjective section that the filtered markdown does not
C13_Witness ==
    /\ pc = "assembled"
    /\ MarkdownSupplied(soap_note)
    /\ soap_note.value["markdown"] = FlattenedMarkdown
    /\ Truthy(Get(soap_note.value, "subjective"))
    /\ StartsWith(soap_markdown, SubjectiveHeader)
    /\ ~Contains(RemoveTamilText(FlattenedMarkdown), SubjectiveHeader)

----------------------------------------------------------------------------
(* PDFService.generate_consultation_pdf and _generate_with_reportlab as the *)
(* caller sees them.  pdf_buffer is the BytesIO the backend writes into:    *)
(* Unbound before it is created, then "empty", and after the backend wrote  *)
(* into it "partial" or "complete".  raised is the set of the steps that    *)
(* raised so far.  outcome is what the call gives its caller.               *)

Unbound == <<"<unbound>">>

\* consultation_data["entities"]: absent, lists of str, or a list that holds
\* something that is no str (", ".join raises TypeError on it)
EntitiesValues == {"absent", "strings", "not strings"}

\* consultation_data["soap_note"]
RenderNotes ==
    {ScenarioC, [type |-> "str", value |-> FlattenedMarkdown],
     [type |-> "NoneType"], [type |-> "dict", value |-> <<>>]}

\* the outcome of the module's imports
Backends ==
    {[weasyprint |-> TRUE, reportlab |-> FALSE],
     [weasyprint |-> FALSE, reportlab |-> TRUE],
     [weasyprint |-> FALSE, reportlab |-> FALSE]}

Pending == [status |-> "pending", buffer |-> None]

InitRender ==
    /\ pc = "call"
    /\ \E b \in Backends :
          /\ WEASYPRINT_AVAILABLE = b.weasyprint
          /\ USE_REPORTLAB = b.reportlab
    /\ consultation_data \in [soap_note : RenderNotes, entities : EntitiesValues]
    /\ soap_note = Unbound
    /\ soap_markdown = Unbound
    /\ pdf_buffer = Unbound
    /\ raised = {}
    /\ outcome = Pending
    /\ NormIdle /\ BulletIdle /\ FilterIdle
    /\ FontsIdle /\ EndpointIdle /\ StoryIdle

idleVars == <<normVars, bulletVars, filterVars, laterVars>>
imports == <<WEASYPRINT_AVAILABLE, USE_REPORTLAB>>

\* the choice of the backend at the head of generate_consultation_pdf
GenerateConsultationPdf ==
    /\ pc = "call"
    /\ IF ~WEASYPRINT_AVAILABLE
       THEN IF USE_REPORTLAB
            THEN pc' = "rl_fonts" /\ UNCHANGED outcome
            ELSE /\ outcome' = [status |-> "raised", buffer |-> None]
                 /\ pc' = "done"
       ELSE pc' = "wp_extract" /\ UNCHANGED outcome
    /\ UNCHANGED <<imports, consultation_data, assembleVars, pdf_buffer, raised,
                   idleVars>>

\* "Extract data" up to the HTML document (both backends run the same
\* assembler, then join the entities)
Extract(next, handler) ==
    /\ soap_note' = consultation_data.soap_note
    /\ soap_markdown' = SoapMarkdownOf(consultation_data.soap_note)
    /\ IF consultation_data.entities = "not strings"
       THEN raised' = raised \cup {"join"} /\ pc' = handler
       ELSE UNCHANGED raised /\ pc' = next
    /\ UNCHANGED <<imports, consultation_data, pdf_buffer, outcome, idleVars>>

WpExtract == pc = "wp_extract" /\ Extract("wp_font_config", "wp_except")

\* FontConfiguration() and HTML(string=html_content)
WpFontConfiguration ==
    /\ pc = "wp_font_config"
    /\ \/ pc' = "wp_write" /\ UNCHANGED raised
       \/ raised' = raised \cup {"FontConfiguration"} /\ pc' = "wp_except"
    /\ UNCHANGED <<imports, consultation_data, assembleVars, pdf_buffer,
                   outcome, idleVars>>

\* pdf_bytes = BytesIO(); html.write_pdf(pdf_bytes, ...); pdf_bytes.seek(0)
WpWritePdf ==
    /\ pc = "wp_write"
    /\ \/ pdf_buffer' = "complete" /\ pc' = "wp_return" /\ UNCHANGED raised
       \/ /\ pdf_buffer' \in {"empty", "partial"}
          /\ raised' = raised \cup {"write_pdf"}
          /\ pc' = "wp_except"
    /\ UNCHANGED <<imports, consultation_data, assembleVars, outcome, idleVars>>

\* return pdf_bytes
WpReturn ==
    /\ pc = "wp_return"
    /\ outcome' = [status |-> "returned", buffer |-> pdf_buffer]
    /\ pc' = "done"
    /\ UNCHANGED <<imports, consultation_data, assembleVars, pdf_buffer, raised,
                   idleVars>>

\* an except clause that falls back on the other backend
WpExceptFallsBack ==
    /\ pc = "wp_except"
    /\ pc' = "rl_fonts"
    /\ UNCHANGED <<imports, consultation_data, assembleVars, pdf_buffer, raised,
                   outcome, idleVars>>

\* except Exception as e: ... raise Exception(...)
WpExcept ==
    /\ pc = "wp_except"
    /\ outcome' = [status |-> "raised", buffer |-> None]
    /\ pc' = "done"
    /\ UNCHANGED <<imports, consultation_data, assembleVars, pdf_buffer, raised,
                   idleVars>>

\* the font registration of the reportlab path: what registerFont raises is
\* caught and logged, and the function goes on
RlRegisterFonts ==
    /\ pc = "rl_fonts"
    /\ \/ UNCHANGED raised
       \/ raised' = raised \cup {"registerFont"}
    /\ pc' = "rl_extract"
    /\ UNCHANGED <<imports, consultation_data, assembleVars, pdf_buffer,
                   outcome, idleVars>>

RlExtract == pc = "rl_extract" /\ Extract("rl_story", "rl_except")

\* pdf_buffer = BytesIO(), SimpleDocTemplate, the styles and the story
RlBuildStory ==
    /\ pc = "rl_story"
    /\ pdf_buffer' = "empty"
    /\ \/ pc' = "rl_build" /\ UNCHANGED raised
       \/ raised' = raised \cup {"Paragraph"} /\ pc' = "rl_except"
    /\ UNCHANGED <<imports, consultation_data, assembleVars, outcome, idleVars>>

\* doc.build(story); pdf_buffer.seek(0)
RlBuild ==
    /\ pc = "rl_build"
    /\ \/ pdf_buffer' = "complete" /\ pc' = "rl_return" /\ UNCHANGED raised
       \/ /\ pdf_buffer' \in {"empty", "partial"}
          /\ raised' = raised \cup {"doc.build"}
          /\ pc' = "rl_except"
    /\ UNCHANGED <<imports, consultation_data, assembleVars, outcome, idleVars>>

\* return pdf_buffer
RlReturn ==
    /\ pc = "rl_return"
    /\ outcome' = [status |-> "returned", buffer |-> pdf_buffer]
    /\ pc' = "done"
    /\ UNCHANGED <<imports, consultation_data, assembleVars, pdf_buffer, raised,
                   idleVars>>

\* an except clause that hands the caller the buffer as it is
RlExceptReturnsBuffer ==
    /\ pc = "rl_except"
    /\ outcome' = [status |-> "returned",
                   buffer |-> IF pdf_buffer = Unbound THEN None ELSE pdf_buffer]
    /\ pc' = "done"
    /\ UNCHANGED <<imports, consultation_data, assembleVars, pdf_buffer, raised,
                   idleVars>>

\* except Exception as e: ... raise Exception(...)
RlExcept ==
    /\ pc = "rl_except"
    /\ outcome' = [status |-> "raised", buffer |-> None]
    /\ pc' = "done"
    /\ UNCHANGED <<imports, consultation_data, assembleVars, pdf_buffer, raised,
                   idleVars>>

NextRender ==
    \/ GenerateConsultationPdf
    \/ WpExtract
    \/ WpFontConfiguration
    \/ WpWritePdf
    \/ WpReturn
    \/ WpExcept
    \/ RlRegisterFonts
    \/ RlExtract
    \/ RlBuildStory
    \/ RlBuild
    \/ RlReturn
    \/ RlExcept

SpecRender == InitRender /\ [][NextRender]_vars

\* the call returned a complete buffer
ReturnedComplete == outcome = [status |-> "returned", buffer |-> "complete"]

\* the call raised and gave its caller no buffer
RaisedNoBuffer == outcome = [status |-> "raised", buffer |-> None]

\* C10 as stated: a call returns a complete buffer or raises, and whenever
\* the layout/font backend raised at any step no buffer is returned.
C10_AnyRaiseMeansNoBuffer ==
    pc = "done" =>
        /\ ReturnedComplete \/ RaisedNoBuffer
        /\ raised # {} => RaisedNoBuffer

\* C10 (amended): a call returns a complete buffer or raises, never a
\* partly written buffer; a raise at any step other than the reportlab font
\* registration leaves the caller without a buffer, while what the font
\* registration raises is caught and logged and rendering goes on.
C10_AllOrNothing ==
    pc = "done" =>
        /\ ReturnedComplete \/ RaisedNoBuffer
        /\ raised \ {"registerFont"} # {} => RaisedNoBuffer
        /\ ReturnedComplete => raised \subseteq {"registerFont"}

\* doc.build raised after it wrote a part of the buffer, and the call raised
C10_Witness ==
    /\ pc = "done"
    /\ "doc.build" \in raised
    /\ pdf_buffer = "partial"
    /\ outcome.status = "raised"

----------------------------------------------------------------------------
(* The font registration of _generate_with_reportlab, run by several render *)
(* calls of one process.  reportlab's pdfmetrics keeps one registry per     *)
(* process; a call is a thread that takes one step at a time (one iteration *)
(* of the loop over font_paths, the DejaVu block, the rest of the function).*)

MaxCalls == 2

\* None where the other values are str
NoName == "<None>"
Calls == 1..MaxCalls

LocalTamilFont == "fonts/TamilMN-Regular.ttf"
FallbackTamilFont == "fonts/NotoSansTamil-Regular.ttf"
LocalTeluguFont == "fonts/NotoSansTelugu-Regular.ttf"
SharedTamilFont == "/usr/share/fonts/truetype/noto/NotoSansTamil-Regular.ttf"
SharedTeluguFont == "/usr/share/fonts/truetype/noto/NotoSansTelugu-Regular.ttf"
SharedDejaVuFont == "/usr/share/fonts/truetype/dejavu/DejaVuSans.ttf"

\* font_paths of the call's language
FontPaths(language) ==
    IF language = "te"
    THEN <<LocalTeluguFont,
           "/System/Library/Fonts/Supplemental/NotoSansTelugu-Regular.ttf",
           SharedTeluguFont>>
    ELSE <<LocalTamilFont, FallbackTamilFont,
           "/System/Library/Fonts/Supplemental/NotoSansTamil-Regular.ttf",
           SharedTamilFont,
           "/Library/Fonts/NotoSansTamil-Regular.ttf">>

dejavu_paths ==
    <<"/System/Library/Fonts/Supplemental/DejaVuSans.ttf", SharedDejaVuFont>>

font_registry_name == "IndicFont"

\* the files on disk: path -> "font" (a TrueType font), "html" (a download
\* that went wrong: registerFont raises "not a recognized TrueType font" and
\* the file starts with <!DOCTYPE) or "bad" (registerFont raises otherwise)
FontFileSets ==
    {<<>>,
     (LocalTamilFont :> "font") @@ (LocalTeluguFont :> "font"),
     (LocalTamilFont :> "html") @@ (SharedTamilFont :> "font")
        @@ (SharedTeluguFont :> "font"),
     (LocalTeluguFont :> "bad") @@ (SharedDejaVuFont :> "font")}

\* a call that has not started: the locals of _generate_with_reportlab
NewCall(language) ==
    [language |-> language, pc |-> "fonts", font_index |-> 1,
     tamil_font_name |-> NoName, bound_font |-> NoName, fontName |-> NoName]

InitFonts ==
    /\ pc = "serving"
    /\ calls \in [Calls -> {NewCall(l) : l \in {"ta", "te"}}]
    /\ registry = <<>>
    /\ registrations = <<>>
    /\ font_files \in FontFileSets
    /\ NormIdle /\ BulletIdle /\ FilterIdle /\ AssembleIdle /\ RenderIdle
    /\ EndpointIdle /\ StoryIdle

otherVars ==
    <<pc, normVars, bulletVars, filterVars, assembleVars, renderVars,
      endpointVars, storyVars>>

\* a registration that is skipped when the registry holds the font already
RegisterFontOnce(c, name, path) ==
    IF name \in DOMAIN registry /\ registry[name] = path
    THEN UNCHANGED <<registry, registrations>>
    ELSE /\ registry' = (name :> path) @@ registry
         /\ registrations' = Append(registrations, [call |-> c, name |-> name, font |-> path])

\* pdfmetrics.registerFont(TTFont(name, path)) binds name in the registry
RegisterFont(c, name, path) ==
    /\ registry' = (name :> path) @@ registry
    /\ registrations' = Append(registrations, [call |-> c, name |-> name, font |-> path])

\* one iteration of "for font_path in font_paths", or the end of the loop
TryFontPath(c) ==
    LET call == calls[c]
        font_paths == FontPaths(call.language)
        font_path == font_paths[call.font_index]
    IN /\ call.pc = "fonts"
       /\ IF call.font_index > Len(font_paths)
          THEN /\ calls' = [calls EXCEPT ![c].pc = "dejavu"]
               /\ UNCHANGED <<registry, registrations, font_files>>
          ELSE IF font_path \notin DOMAIN font_files
          THEN /\ calls' = [calls EXCEPT ![c].font_index = @ + 1]
               /\ UNCHANGED <<registry, registrations, font_files>>
          ELSE IF font_files[font_path] = "font"
          THEN /\ RegisterFont(c, font_registry_name, font_path)
               /\ calls' = [calls EXCEPT ![c].tamil_font_name = font_registry_name,
                                         ![c].bound_font = font_path,
                                         ![c].pc = "dejavu"]
               /\ UNCHANGED font_files
          ELSE /\ calls' = [calls EXCEPT ![c].font_index = @ + 1]
               /\ font_files' =
                     IF font_files[font_path] = "html"
                     THEN [f \in DOMAIN font_files \ {font_path} |-> font_files[f]]
                     ELSE font_files
               /\ UNCHANGED <<registry, registrations>>
       /\ UNCHANGED otherVars

\* the first of dejavu_paths that exists
FirstDejaVu ==
    IF dejavu_paths[1] \in DOMAIN font_files THEN dejavu_paths[1]
    ELSE IF dejavu_paths[2] \in DOMAIN font_files THEN dejavu_paths[2]
    ELSE NoName

\* "if not tamil_font_name:" and the DejaVu block
TryDejaVu(c) ==
    /\ calls[c].pc = "dejavu"
    /\ IF calls[c].tamil_font_name = NoName /\ FirstDejaVu # NoName
          /\ font_files[FirstDejaVu] = "font"
       THEN /\ RegisterFont(c, "UnicodeFont", FirstDejaVu)
            /\ calls' = [calls EXCEPT ![c].tamil_font_name = "UnicodeFont",
                                      ![c].bound_font = FirstDejaVu,
                                      ![c].pc = "build"]
       ELSE /\ calls' = [calls EXCEPT ![c].pc = "build"]
            /\ UNCHANGED <<registry, registrations>>
    /\ UNCHANGED <<font_files, otherVars>>

\* a build that sets the text in the font the call registered, as the
\* registry holds it when the document is built
BuildWithRegisteredFont(c) ==
    /\ calls[c].pc = "build"
    /\ calls' = [calls EXCEPT
                   ![c].fontName =
                       IF calls[c].tamil_font_name = NoName THEN "Helvetica"
                       ELSE registry[calls[c].tamil_font_name],
                   ![c].pc = "done"]
    /\ UNCHANGED <<registry, registrations, font_files, otherVars>>

\* base_font = 'Helvetica' and the rest of the function: every style names
\* base_font or 'Helvetica-Bold'
Build(c) ==
    /\ calls[c].pc = "build"
    /\ calls' = [calls EXCEPT ![c].fontName = "Helvetica", ![c].pc = "done"]
    /\ UNCHANGED <<registry, registrations, font_files, otherVars>>

NextFonts ==
    \/ \E c \in Calls : TryFontPath(c)
    \/ \E c \in Calls : TryDejaVu(c)
    \/ \E c \in Calls : Build(c)

SpecFonts == InitFonts /\ [][NextFonts]_vars

\* the registrations a call performed
RegistrationsBy(c) ==
    SelectSeq(registrations, LAMBDA r : r.call = c)

\* C11 as stated: a font is registered at most once per font/script key,
\* however many render calls there are.
C11_RegisteredAtMostOnce ==
    \A i, j \in DOMAIN registrations :
        (/\ registrations[i].name = registrations[j].name
         /\ registrations[i].font = registrations[j].font) => i = j

\* C11 (amended): registration is not memoized.  Every render call that
\* finds a usable font file registers it itself, whatever the registry
\* already holds: a call past its font registration has performed exactly
\* one registration (of the font it bound) if it found a font and none
\* otherwise.
C11_RegisteredByEveryCall ==
    \A c \in Calls :
        calls[c].pc \in {"build", "done"} =>
            IF calls[c].tamil_font_name = NoName
            THEN RegistrationsBy(c) = <<>>
            ELSE RegistrationsBy(c) =
                    <<[call |-> c, name |-> calls[c].tamil_font_name,
                       font |-> calls[c].bound_font]>>

\* two calls for the same language are done and the same font was
\* registered twice
C11_Witness ==
    /\ \A c \in Calls : calls[c].pc = "done" /\ calls[c].language = "ta"
    /\ Len(registrations) = 2
    /\ registrations[1].font = registrations[2].font
    /\ registrations[1].call # registrations[2].call

\* a call that registered a font and has not returned yet
InFlightWithFont(c) ==
    calls[c].pc \in {"dejavu", "build"} /\ calls[c].tamil_font_name # NoName

LastRegistered(name) ==
    LET under == SelectSeq(registrations, LAMBDA r : r.name = name)
    IN under[Len(under)].font

----------------------------------------------------------------------------
(* The choice of the backend and the single attempt of a call *)

\* the steps of a call in the order the code runs them
StepOrder ==
    <<"call", "wp_extract", "wp_font_config", "wp_write", "wp_return",
      "wp_except", "rl_fonts", "rl_extract", "rl_story", "rl_build",
      "rl_return", "rl_except", "done">>

StepRank(step) == CHOOSE i \in DOMAIN StepOrder : StepOrder[i] = step

WpSteps == {"wp_extract", "wp_font_config", "wp_write", "wp_return", "wp_except"}
RlSteps == {"rl_fonts", "rl_extract", "rl_story", "rl_build", "rl_return", "rl_except"}

\* one step of a call: the flags the imports set stay as they are, the call
\* stays with its backend, goes forward only, and leaves an except clause
\* by raising
SingleAttemptStep ==
    /\ UNCHANGED imports
    /\ pc \in WpSteps => pc' \in WpSteps \cup {"done"}
    /\ pc \in RlSteps => pc' \in RlSteps \cup {"done"}
    /\ StepRank(pc') > StepRank(pc)
    /\ pc \in {"wp_except", "rl_except"} => pc' = "done" /\ RaisedNoBuffer'

----------------------------------------------------------------------------
(* api/consultations.py: get_consultation_pdf beside the life of the        *)
(* consultation it is asked for.  stored is the set of rows of the table    *)
(* "consultations" with the requested id (no row or one row), reduced to    *)
(* the columns status, transcript, soap_note, entities and icd_codes.       *)

\* the row create_consultation inserts
NewRow ==
    [status |-> "processing", transcript |-> "absent", soap_note |-> "absent",
     entities |-> "absent", icd_codes |-> "absent"]

\* the row of stored
TheRow == CHOOSE row \in stored : TRUE

\* the locals of a request that has not fetched anything yet
NoResponse == [code |-> 0, detail |-> "pending"]

\* the request's variables, and what the model leaves unused
requestVars ==
    <<pc, current_user, consultation, response, consultation_data, outcome>>
restVars ==
    <<normVars, bulletVars, filterVars, assembleVars, WEASYPRINT_AVAILABLE,
      USE_REPORTLAB, pdf_buffer, raised, fontVars, storyVars>>

InitEndpoint ==
    /\ pc = "idle"
    /\ stored = {}
    /\ current_user = NoName
    /\ consultation = Unbound
    /\ response = NoResponse
    /\ consultation_data = Unbound
    /\ outcome = Pending
    /\ WEASYPRINT_AVAILABLE = Unused /\ USE_REPORTLAB = Unused
    /\ pdf_buffer = Unused /\ raised = Unused
    /\ NormIdle /\ BulletIdle /\ FilterIdle /\ AssembleIdle
    /\ FontsIdle /\ StoryIdle

\* create_consultation: the insert with status "processing"
CreateConsultation ==
    /\ stored = {}
    /\ stored' = {NewRow}
    /\ UNCHANGED <<requestVars, restVars>>

\* the background task stores the transcript
StoreTranscript ==
    /\ stored # {}
    /\ TheRow.status = "processing" /\ TheRow.transcript = "absent"
    /\ stored' = {[TheRow EXCEPT !.transcript = "transcript"]}
    /\ UNCHANGED <<requestVars, restVars>>

\* the background task stores the note and marks the row completed
CompleteConsultation ==
    /\ stored # {}
    /\ TheRow.status = "processing" /\ TheRow.transcript = "transcript"
    /\ \E e, i \in {"empty", "some"} :
          stored' = {[TheRow EXCEPT !.status = "completed",
                                    !.soap_note = "note",
                                    !.entities = e,
                                    !.icd_codes = i]}
    /\ UNCHANGED <<requestVars, restVars>>

\* the background task failed and marks the row failed
FailConsultation ==
    /\ stored # {}
    /\ TheRow.status = "processing"
    /\ stored' = {[TheRow EXCEPT !.status = "failed"]}
    /\ UNCHANGED <<requestVars, restVars>>

\* a response ends the request
Answer(code, detail) ==
    /\ response' = [code |-> code, detail |-> detail]
    /\ pc' = "done"

\* the select of the row of this id and user: no data gives 404, and
\* .single() may raise on no row, which the last except turns into 500
FetchConsultation ==
    /\ pc = "fetch"
    /\ IF stored = {} \/ current_user # "owner"
       THEN /\ \/ Answer(404, "Consultation not found")
               \/ Answer(500, "Failed to generate PDF")
            /\ UNCHANGED consultation
       ELSE /\ consultation' = TheRow
            /\ pc' = "check"
            /\ UNCHANGED response
    /\ UNCHANGED <<stored, current_user, consultation_data, outcome, restVars>>

\* a status check that turns away a consultation in processing only
CheckStatusNotProcessing ==
    /\ pc = "check"
    /\ IF consultation.status = "processing"
       THEN Answer(400, "PDF can only be generated for completed consultations")
       ELSE pc' = "render" /\ UNCHANGED response
    /\ UNCHANGED <<stored, current_user, consultation, consultation_data, outcome,
                   restVars>>

\* if consultation.get("status") != "completed": raise HTTPException(400)
CheckStatus ==
    /\ pc = "check"
    /\ IF consultation.status # "completed"
       THEN Answer(400, "PDF can only be generated for completed consultations")
       ELSE pc' = "render" /\ UNCHANGED response
    /\ UNCHANGED <<stored, current_user, consultation, consultation_data, outcome,
                   restVars>>

\* pdf_service.generate_consultation_pdf(consultation) returns or raises
GeneratePdf ==
    /\ pc = "render"
    /\ consultation_data' = consultation
    /\ outcome' \in {[status |-> "returned", buffer |-> "complete"],
                     [status |-> "raised", buffer |-> None]}
    /\ pc' = "respond"
    /\ UNCHANGED <<stored, current_user, consultation, response, restVars>>

\* a handler of the render error that marks the consultation failed
RespondMarksFailed ==
    /\ pc = "respond"
    /\ IF outcome.status = "raised"
       THEN /\ Answer(503, "PDF generation unavailable")
            /\ stored' = {[row EXCEPT !.status = "failed"] : row \in stored}
       ELSE Answer(200, "application/pdf") /\ UNCHANGED stored
    /\ UNCHANGED <<current_user, consultation, consultation_data, outcome, restVars>>

\* the except clause of the render (503) or the Response with the bytes
Respond ==
    /\ pc = "respond"
    /\ IF outcome.status = "raised"
       THEN Answer(503, "PDF generation unavailable")
       ELSE Answer(200, "application/pdf")
    /\ UNCHANGED <<stored, current_user, consultation, consultation_data, outcome,
                   restVars>>

\* a request for the PDF of the consultation arrives, from its owner or
\* from another user
GetConsultationPdf ==
    /\ pc \in {"idle", "done"}
    /\ pc' = "fetch"
    /\ current_user' \in {"owner", "other"}
    /\ consultation' = Unbound
    /\ response' = NoResponse
    /\ consultation_data' = Unbound
    /\ outcome' = Pending
    /\ UNCHANGED <<stored, restVars>>

NextEndpoint ==
    \/ CreateConsultation
    \/ StoreTranscript
    \/ CompleteConsultation
    \/ FailConsultation
    \/ FetchConsultation
    \/ CheckStatus
    \/ GeneratePdf
    \/ Respond
    \/ GetConsultationPdf

SpecEndpoint == InitEndpoint /\ [][NextEndpoint]_vars

\* a step of the request, as opposed to a step of the consultation's life
RequestStep == requestVars' # requestVars

\* C16: no step of a PDF request changes the stored consultation, whether
\* the request is answered with the PDF, with an error of the rendering
\* (PDF generation unavailable) or with a rejection.
C16_RequestLeavesRecord ==
    [][RequestStep => stored' = stored]_vars

\* rendering failed, the client was told so, and the consultation is stored
\* as completed with its note as before
C16_Witness ==
    /\ pc = "done"
    /\ response = [code |-> 503, detail |-> "PDF generation unavailable"]
    /\ outcome.status = "raised"
    /\ stored = {consultation}
    /\ consultation.status = "completed" /\ consultation.soap_note = "note"

\* the renderer was called in this request
RendererCalled == outcome # Pending

\* C17: the renderer is called only with a consultation whose status is
\* completed; a request that fetched a consultation in processing or failed
\* is answered with an error without a call of the renderer.
C17_RenderOnlyCompleted ==
    /\ (pc \in {"render", "respond"} \/ RendererCalled)
            => /\ consultation.status = "completed"
               /\ (RendererCalled => consultation_data.status = "completed")
    /\ (pc = "done" /\ response.code \notin {404, 500}
            /\ consultation.status # "completed")
            => response.code = 400 /\ ~RendererCalled

\* a request for a failed consultation was rejected and the renderer was
\* not called
C17_Witness ==
    /\ pc = "done"
    /\ response.code = 400
    /\ consultation.status = "failed"
    /\ ~RendererCalled

----------------------------------------------------------------------------
(* The story of _generate_with_reportlab: the list of flowables handed to    *)
(* doc.build, from the title to the footer, with the walk of               *)
(* _add_soap_note_to_story over the lines of the normalized note.  A        *)
(* flowable is a record with its kind; a header and a bullet carry their    *)
(* text, and a buffered bullet remembers the line it was read from.         *)

MaxStoryPieces == 3

StoryPieces ==
    {<<"#", "#", " ", "P", "l", "a", "n">>, DashSep, <<"a">>, <<".">>,
     <<"b", "u", "l", "l", "e", "t">>, <<" ">>}

\* the values of a field of a soap_note dict
StoryFields ==
    {<<>>, <<"a">>, <<"a", " ", "-", " ", "b", ".">>,
     <<"b", "u", "l", "l", "e", "t">>}

\* consultation_data["soap_note"]: a str, a dict of fields, or nothing
StoryNotes ==
    {[type |-> "str", value |-> v] :
        v \in StringsOver(StoryPieces, MaxStoryPieces)}
    \cup {[type |-> "dict", value |-> d] :
            d \in [{"subjective", "plan"} -> StoryFields]}
    \cup {[type |-> "dict", value |-> [k \in {"markdown"} |-> FlattenedMarkdown]]}
    \cup {[type |-> "NoneType"]}

\* texts of several lines for a call of _add_soap_note_to_story by itself
WalkPieces ==
    {<<"#", "#", " ", "P", "l", "a", "n", "\n">>, <<"-", " ", "a", "\n">>,
     <<"b", "\n">>, <<"b", "u", "l", "l", "e", "t">>, <<"\n">>}

WalkMarkdowns == StringsOver(WalkPieces, MaxStoryPieces)

Spacer == [kind |-> "spacer"]

\* item_text.replace("bullet", "")
WithoutBullet(item_text) ==
    Join(Split(item_text, <<"b", "u", "l", "l", "e", "t">>), <<>>)

RECURSIVE BulletParagraphs(_)
\* the loop of _add_bullet_list: one paragraph for each item that has text
\* left when the word bullet is taken out of it
BulletParagraphs(bullet_items) ==
    IF bullet_items = <<>> THEN <<>>
    ELSE LET item == Head(bullet_items)
             item_text == Strip(WithoutBullet(Strip(item.text)))
         IN (IF item_text # <<>>
             THEN <<[kind |-> "bullet", text |-> item_text, line |-> item.line]>>
             ELSE <<>>)
            \o BulletParagraphs(Tail(bullet_items))

\* _add_bullet_list(story, bullet_items, bullet_style)
AddBulletList(st, bullet_items) ==
    IF bullet_items = <<>> THEN st
    ELSE st \o BulletParagraphs(bullet_items) \o <<Spacer>>

\* a flush that does nothing
FlushBulletsNever(w) == w

\* "if current_bullets: self._add_bullet_list(...); current_bullets = []"
FlushBullets(w) ==
    [w EXCEPT !.story = AddBulletList(w.story, w.current_bullets),
              !.current_bullets = <<>>]

\* a header line that opens its block before the buffered bullets are
\* flushed, so that they come out under the new header
OnHeaderFlushesLate(w, stripped) ==
    LET header_text == Strip(SubSeq(stripped, 3, Len(stripped)))
        opened == [w EXCEPT !.story =
                        w.story
                        \o (IF w.current_section # None THEN <<Spacer>> ELSE <<>>)
                        \o <<[kind |-> "header", text |-> header_text], Spacer>>,
                     !.current_section = header_text]
    IN FlushBullets(opened)

\* a header line: the buffered bullets are flushed, then the header block
OnHeader(w, stripped) ==
    LET flushed == FlushBullets(w)
        header_text == Strip(SubSeq(stripped, 3, Len(stripped)))
    IN [flushed EXCEPT !.story =
                            flushed.story
                            \o (IF w.current_section # None THEN <<Spacer>> ELSE <<>>)
                            \o <<[kind |-> "header", text |-> header_text], Spacer>>,
                       !.current_section = header_text]

RECURSIVE TextItems(_, _)
\* the items of a text line split at " - ": stripped, then without their
\* trailing periods, kept when something is left
TextItems(items, k) ==
    IF items = <<>> THEN <<>>
    ELSE LET item == RStripDots(Strip(Head(items)))
         IN (IF item # <<>> THEN <<[text |-> item, line |-> k]>> ELSE <<>>)
            \o TextItems(Tail(items), k)

\* a line that is neither blank nor a header: what it adds to the buffer
BufferedOf(stripped, k) ==
    IF StartsWith(stripped, BulletPrefix)
    THEN LET bullet_text == Strip(SubSeq(stripped, 3, Len(stripped)))
         IN IF bullet_text # <<>>
            THEN <<[text |-> bullet_text, line |-> k]>> ELSE <<>>
    ELSE IF Contains(stripped, DashSep)
    THEN TextItems(Split(stripped, DashSep), k)
    ELSE <<[text |-> stripped, line |-> k]>>

\* the body of "for line in lines" for line k
OnLine(w, k) ==
    LET stripped == Strip(walk_lines[k])
    IN IF stripped = <<>> THEN FlushBullets(w)
       ELSE IF StartsWith(stripped, HeaderMark) THEN OnHeader(w, stripped)
       ELSE [w EXCEPT !.current_bullets = @ \o BufferedOf(stripped, k)]

walkVars == <<walk_lines, line_no, current_section, current_bullets>>
storyRest ==
    <<normVars, bulletVars, filterVars, soap_note, renderVars, fontVars,
      endpointVars>>

\* a call of _generate_with_reportlab that has extracted its data, or a call
\* of _add_soap_note_to_story by itself with an empty story
InitStory ==
    /\ \/ /\ pc = "title"
          /\ soap_note \in StoryNotes
          /\ soap_markdown = SoapMarkdownOf(soap_note)
          /\ entities_text \in {<<>>, <<"e">>}
          /\ icd_text \in {<<>>, <<"i">>}
       \/ /\ pc = "add_soap_note"
          /\ soap_note = Unused
          /\ soap_markdown \in WalkMarkdowns
          /\ entities_text = <<>>
          /\ icd_text = <<>>
    /\ story = <<>>
    /\ walk_lines = <<>>
    /\ line_no = 0
    /\ current_section = None
    /\ current_bullets = <<>>
    /\ NormIdle /\ BulletIdle /\ FilterIdle /\ RenderIdle
    /\ FontsIdle /\ EndpointIdle

\* the title, the patient info and the heading of the note
AppendTitleAndInfo ==
    /\ pc = "title"
    /\ story' = story \o <<[kind |-> "title"], Spacer, [kind |-> "info"], Spacer,
                           Spacer, [kind |-> "heading"], Spacer>>
    /\ pc' = "soap"
    /\ UNCHANGED <<soap_markdown, entities_text, icd_text, walkVars, storyRest>>

\* "if soap_markdown and soap_markdown.strip()": normalize it and walk over
\* it, or say that there is no note
AppendSoapNote ==
    /\ pc = "soap"
    /\ IF Strip(soap_markdown) # <<>>
       THEN /\ soap_markdown' = NormalizeSoapMarkdown(soap_markdown)
            /\ pc' = "add_soap_note"
            /\ UNCHANGED story
       ELSE /\ story' = story \o <<[kind |-> "paragraph"]>>
            /\ pc' = "entities"
            /\ UNCHANGED soap_markdown
    /\ UNCHANGED <<entities_text, icd_text, walkVars, storyRest>>

\* where _add_soap_note_to_story returns to: the document that called it, or
\* the caller of a call by itself
ReturnOfWalk ==
    IF story # <<>> /\ Head(story).kind = "title" THEN "entities" ELSE "returned"

\* the head of _add_soap_note_to_story: the markdown is normalized (again,
\* in a document) and split into lines
AddSoapNoteToStory ==
    /\ pc = "add_soap_note"
    /\ IF soap_markdown = <<>>
       THEN pc' = ReturnOfWalk /\ UNCHANGED walkVars
       ELSE /\ walk_lines' = Split(NormalizeSoapMarkdown(soap_markdown), NL)
            /\ line_no' = 1
            /\ current_section' = None
            /\ current_bullets' = <<>>
            /\ pc' = "walk"
    /\ UNCHANGED <<soap_markdown, entities_text, icd_text, story, storyRest>>

\* one iteration of "for line in lines"
WalkLine ==
    /\ pc = "walk"
    /\ line_no <= Len(walk_lines)
    /\ LET w == OnLine([story |-> story, current_section |-> current_section,
                        current_bullets |-> current_bullets], line_no)
       IN /\ story' = w.story
          /\ current_section' = w.current_section
          /\ current_bullets' = w.current_bullets
    /\ line_no' = line_no + 1
    /\ UNCHANGED <<pc, soap_markdown, entities_text, icd_text, walk_lines,
                   storyRest>>

\* "Close last section": the buffer is flushed and stays as it is
CloseLastSection ==
    /\ pc = "walk"
    /\ line_no > Len(walk_lines)
    /\ story' = AddBulletList(story, current_bullets)
    /\ pc' = ReturnOfWalk
    /\ UNCHANGED <<soap_markdown, entities_text, icd_text, walkVars, storyRest>>

\* an entities block that is appended whether or not there are entities
AppendEntitiesAlways ==
    /\ pc = "entities"
    /\ story' = story \o <<Spacer, [kind |-> "entities_heading"],
                           [kind |-> "entities"], Spacer>>
    /\ pc' = "icd"
    /\ UNCHANGED <<soap_markdown, entities_text, icd_text, walkVars, storyRest>>

\* the spacer after the note and "if entities_text:"
AppendEntities ==
    /\ pc = "entities"
    /\ story' = story \o <<Spacer>>
                \o (IF entities_text # <<>>
                    THEN <<[kind |-> "entities_heading"], [kind |-> "entities"],
                           Spacer>>
                    ELSE <<>>)
    /\ pc' = "icd"
    /\ UNCHANGED <<soap_markdown, entities_text, icd_text, walkVars, storyRest>>

\* "if icd_text:"
AppendIcdCodes ==
    /\ pc = "icd"
    /\ story' = story \o (IF icd_text # <<>>
                          THEN <<[kind |-> "icd"], Spacer>> ELSE <<>>)
    /\ pc' = "footer"
    /\ UNCHANGED <<soap_markdown, entities_text, icd_text, walkVars, storyRest>>

\* the footer: a spacer and two paragraphs
AppendFooter ==
    /\ pc = "footer"
    /\ story' = story \o <<Spacer, [kind |-> "footer"], [kind |-> "footer"]>>
    /\ pc' = "build"
    /\ UNCHANGED <<soap_markdown, entities_text, icd_text, walkVars, storyRest>>

NextStory ==
    \/ AppendTitleAndInfo
    \/ AppendSoapNote
    \/ AddSoapNoteToStory
    \/ WalkLine
    \/ CloseLastSection
    \/ AppendEntities
    \/ AppendIcdCodes
    \/ AppendFooter

SpecStory == InitStory /\ [][NextStory]_vars

\* the number of header blocks of the story before block i
HeadersBefore(i) ==
    Cardinality({j \in 1..(i - 1) : story[j].kind = "header"})

\* the number of header lines of the walk before line k
HeaderLinesBefore(k) ==
    Cardinality({j \in 1..(k - 1) : IsHeaderLine(walk_lines[j])})

\* every bullet of the story stands after the header block of the section
\* it was read in and before the header block of the next section
BulletsUnderOwnHeader ==
    \A i \in DOMAIN story :
        story[i].kind = "bullet"
            => HeadersBefore(i) = HeaderLinesBefore(story[i].line)

\* the line walked over last was a header line
AfterHeaderLine ==
    pc = "walk" /\ line_no > 1 /\ IsHeaderLine(walk_lines[line_no - 1])

\* the walk is over
WalkOver == pc \in {"entities", "returned"} /\ walk_lines # <<>>

\* C18 as stated: every bullet of the story stands under the header of its
\* own section, and the bullet buffer is empty after each header line and
\* at the end of the walk.
C18_BufferEmptyAfterWalk ==
    /\ BulletsUnderOwnHeader
    /\ AfterHeaderLine => current_bullets = <<>>
    /\ WalkOver => current_bullets = <<>>

\* the blocks that close the story
LastBlocks(n) == SubSeq(story, Len(story) - n + 1, Len(story))

\* C18 (amended): every bullet of the story stands under the header of its
\* own section and the buffer is empty after each header line; at the end
\* of the walk the bullets still buffered are flushed as the last list
\* block, while the buffer itself keeps them.
C18_FlushedBeforeHeader ==
    /\ BulletsUnderOwnHeader
    /\ AfterHeaderLine => current_bullets = <<>>
    /\ (WalkOver /\ current_bullets # <<>>)
            => LET closing == BulletParagraphs(current_bullets) \o <<Spacer>>
               IN /\ Len(closing) <= Len(story)
                  /\ LastBlocks(Len(closing)) = closing

\* a header line met the bullet of the line before it in the buffer: the
\* bullet was flushed, then the header block opened, and the buffer is empty
C18_Witness ==
    /\ AfterHeaderLine
    /\ line_no = 4
    /\ IsHeaderLine(walk_lines[1])
    /\ ~IsBlankLine(walk_lines[2]) /\ ~IsHeaderLine(walk_lines[2])
    /\ current_bullets = <<>>
    /\ Len(story) = 7
    /\ story[3].kind = "bullet" /\ story[3].line = 2
    /\ story[6].kind = "header"

\* the places of the blocks of some kinds in the story
Places(kinds) == {i \in DOMAIN story : story[i].kind \in kinds}

\* every block of A stands before every block of B
AllBefore(A, B) == \A i \in A : \A j \in B : i < j

SectionKinds == {"header", "bullet", "paragraph"}

\* the entities and the diagnosis codes are in the story when, and only
\* when, there are some, and the footer closes the story
TailOfStory ==
    /\ (Places({"entities"}) # {}) = (entities_text # <<>>)
    /\ (Places({"icd"}) # {}) = (icd_text # <<>>)
    /\ AllBefore(Places(SectionKinds), Places({"entities_heading", "entities", "icd"}))
    /\ AllBefore(Places({"entities"}), Places({"icd"}))
    /\ AllBefore(Places({"entities", "icd"}), Places({"footer"}))
    /\ story[Len(story)].kind = "footer"

\* C19 as stated: the metadata block comes after all section blocks, then
\* the entities and the diagnosis codes when present, the footer last.
C19_MetadataAfterSections ==
    pc = "build" =>
        /\ Places({"info"}) # {}
        /\ AllBefore(Places(SectionKinds), Places({"info"}))
        /\ AllBefore(Places({"info"}), Places({"entities", "icd", "footer"}))
        /\ TailOfStory

\* C19 (amended): the metadata block is the second block of the story,
\* after the title and before the heading of the note and every section
\* block; after the section blocks come the entities and the diagnosis
\* codes when present, and the footer is last.
C19_MetadataBeforeSections ==
    pc = "build" =>
        /\ Places({"title"}) = {1}
        /\ Places({"info"}) = {3}
        /\ Places({"heading"}) = {6}
        /\ AllBefore(Places({"info", "heading"}), Places(SectionKinds))
        /\ TailOfStory

\* a finished story with a section of one bullet, with entities and without
\* diagnosis codes
C19_Witness ==
    /\ pc = "build"
    /\ entities_text # <<>> /\ icd_text = <<>>
    /\ Places({"header"}) # {} /\ Places({"bullet"}) # {}
    /\ Places({"info"}) = {3}
    /\ Places({"entities"}) # {} /\ Places({"icd"}) = {}
    /\ AllBefore(Places({"info"}), Places({"header"}))

----------------------------------------------------------------------------
(* The note of a document from consultation_data to the walk *)

\* the flattened text a note carries: the note itself, or its combined
\* markdown
IsFlattenedNote(note) ==
    \/ note.type = "str" /\ IsFlattened(note.value)
    \/ /\ note.type = "dict"
       /\ "markdown" \in DOMAIN note.value
       /\ IsFlattened(note.value["markdown"])
FlattenedTextOf(note) ==
    IF note.type = "str" THEN note.value ELSE note.value["markdown"]

\* a document has assembled and normalized its note and is about to walk
\* over it
NoteNormalized ==
    pc = "add_soap_note" /\ story # <<>> /\ Head(story).kind = "title"

\* C27: for a flattened note (a string, or the combined markdown of a dict)
\* the headers and bullets that reach the walk after the document's own
\* steps are those of _normalize_soap_markdown applied to the note directly.
C27_PipelineAgreesWithNormalize ==
    (NoteNormalized /\ IsFlattenedNote(soap_note)) =>
        NonBlankLines(soap_markdown)
            = NonBlankLines(NormalizeSoapMarkdown(FlattenedTextOf(soap_note)))

\* the flattened note "## Plan - a" has gone through the steps of a
\* document: its content stands in the header line and no bullet is left
C27_Witness ==
    /\ NoteNormalized
    /\ soap_note = [type |-> "str",
                    value |-> <<"#", "#", " ", "P", "l", "a", "n", " ", "-", " ", "a">>]
    /\ soap_markdown = <<"#", "#", " ", "P", "l", "a", "n", " ", "a">>
    /\ NormalizeSoapMarkdown(soap_note.value)
         = <<"#", "#", " ", "P", "l", "a", "n", "\n", "-", " ", "a">>

\* the bullet items of the lines walked over, in order: what each line that
\* is neither blank nor a header adds to the buffer
ItemsOfLines ==
    Concat([k \in DOMAIN walk_lines |->
               IF IsBlankLine(walk_lines[k]) \/ IsHeaderLine(walk_lines[k])
               THEN <<>>
               ELSE BufferedOf(Strip(walk_lines[k]), k)])

\* the bullet paragraphs of the story, in order
BulletsOfStory == SelectSeq(story, LAMBDA f : f.kind = "bullet")

\* C28: when the walk is over every non-empty bullet item of the normalized
\* markdown is in the story exactly once, with its text unchanged and in
\* input order.
C28_NoBulletLost ==
    WalkOver =>
        /\ Len(BulletsOfStory) = Len(ItemsOfLines)
        /\ \A i \in DOMAIN BulletsOfStory :
             /\ BulletsOfStory[i].text = ItemsOfLines[i].text
             /\ BulletsOfStory[i].line = ItemsOfLines[i].line

\* the walk over "## Plan" and "- bullet" is over: the one bullet item of
\* the section is not in the story
C28_Witness ==
    /\ WalkOver
    /\ walk_lines = << <<"#", "#", " ", "P", "l", "a", "n">>,
                       <<"-", " ", "b", "u", "l", "l", "e", "t">> >>
    /\ Len(ItemsOfLines) = 1
    /\ BulletsOfStory = <<>>

----------------------------------------------------------------------------
(* api/consultations.py: create_consultation and the background task it     *)
(* queues, process_consultation_background, one step at a time.  Every      *)
(* call of a service or of the database either returns or raises; an        *)
(* update that raises has not been applied.  raised is the set of the       *)
(* steps that raised so far, outcome how the task ended.                    *)

Languages == {"ta", "te", "en"}
Files == {"ok", "too large", "invalid type"}
PatientNames == {NoName, "patient"}

\* the status of the row of a table that holds one
StatusOf(table) == (CHOOSE row \in table : TRUE).status

taskRest ==
    <<normVars, bulletVars, filterVars, assembleVars, WEASYPRINT_AVAILABLE,
      USE_REPORTLAB, consultation_data, pdf_buffer, fontVars, storyVars,
      current_user, consultation>>

\* a request arrives at create_consultation with its file, its language and
\* its patient name
InitBackground ==
    /\ pc = "request"
    /\ consultation_data \in
          [file : Files, language : Languages, patient_name : PatientNames]
    /\ stored = {}
    /\ response = NoResponse
    /\ raised = {}
    /\ outcome = Pending
    /\ current_user = "owner"
    /\ consultation = Unbound
    /\ WEASYPRINT_AVAILABLE = Unused /\ USE_REPORTLAB = Unused
    /\ pdf_buffer = Unused
    /\ NormIdle /\ BulletIdle /\ FilterIdle /\ AssembleIdle
    /\ FontsIdle /\ StoryIdle

\* a step raises: the exception goes to the handler
Raise(step, handler) ==
    /\ raised' = raised \cup {step}
    /\ pc' = handler

\* "Validate file", "Check file type", "Validate language"
ValidateRequest ==
    /\ pc = "request"
    /\ IF consultation_data.file = "too large"
       THEN Answer(413, "File too large (max 50MB)")
       ELSE IF consultation_data.file = "invalid type"
       THEN Answer(400, "Invalid file type. Use MP3, WAV, or WebM.")
       ELSE IF consultation_data.language \notin {"ta", "te"}
       THEN Answer(400, "Language must be 'ta' (Tamil) or 'te' (Telugu)")
       ELSE pc' = "upload" /\ UNCHANGED response
    /\ UNCHANGED <<stored, raised, outcome, taskRest>>

\* the upload to the storage
UploadAudio ==
    /\ pc = "upload"
    /\ \/ pc' = "insert" /\ UNCHANGED response
       \/ Answer(500, "Storage upload failed")
    /\ UNCHANGED <<stored, raised, outcome, taskRest>>

\* the insert of the consultation record, with status "processing"
InsertConsultation ==
    /\ pc = "insert"
    /\ \/ stored' = {NewRow} /\ pc' = "add_task" /\ UNCHANGED response
       \/ Answer(500, "Database insert failed") /\ UNCHANGED stored
    /\ UNCHANGED <<raised, outcome, taskRest>>

\* background_tasks.add_task(...) and the response; the task runs next
AddTask ==
    /\ pc = "add_task"
    /\ response' = [code |-> 200, detail |-> "processing"]
    /\ pc' = "new_event_loop"
    /\ UNCHANGED <<stored, raised, outcome, taskRest>>

\* asyncio.new_event_loop(), set_event_loop, run_until_complete(_process())
NewEventLoop ==
    /\ pc = "new_event_loop"
    /\ \/ pc' = "progress" /\ UNCHANGED raised
       \/ Raise("new_event_loop", "task_except")
    /\ UNCHANGED <<stored, response, outcome, taskRest>>

\* the update of progress: transcription started
UpdateProgress ==
    /\ pc = "progress"
    /\ \/ pc' = "transcribe" /\ UNCHANGED raised
       \/ Raise("update progress", "process_except")
    /\ UNCHANGED <<stored, response, outcome, taskRest>>

\* await transcription_service.transcribe_audio(...)
TranscribeAudio ==
    /\ pc = "transcribe"
    /\ \/ pc' = "transcript" /\ UNCHANGED raised
       \/ Raise("transcribe_audio", "process_except")
    /\ UNCHANGED <<stored, response, outcome, taskRest>>

\* the update that stores the transcript
UpdateTranscript ==
    /\ pc = "transcript"
    /\ \/ /\ stored' = {[TheRow EXCEPT !.transcript = "transcript"]}
          /\ pc' = "generate" /\ UNCHANGED raised
       \/ Raise("update transcript", "process_except") /\ UNCHANGED stored
    /\ UNCHANGED <<response, outcome, taskRest>>

\* await soap_service.generate_soap_note(...)
GenerateSoapNote ==
    /\ pc = "generate"
    /\ \/ pc' = "results" /\ UNCHANGED raised
       \/ Raise("generate_soap_note", "process_except")
    /\ UNCHANGED <<stored, response, outcome, taskRest>>

\* the row with the results of the note and status "completed"
Completed(row, e, i) ==
    [row EXCEPT !.status = "completed", !.soap_note = "note",
                !.entities = e, !.icd_codes = i]

\* an update with the results that is applied and raises all the same
UpdateResultsAppliedAndRaises ==
    /\ pc = "results"
    /\ \E e, i \in {"empty", "some"} :
          \/ stored' = {Completed(TheRow, e, i)}
             /\ pc' = "process_returned" /\ UNCHANGED raised
          \/ stored' = {Completed(TheRow, e, i)}
             /\ Raise("update results", "process_except")
    /\ UNCHANGED <<response, outcome, taskRest>>

\* the update with the results: soap_note, entities, icd_codes, status
\* "completed"
UpdateResults ==
    /\ pc = "results"
    /\ \E e, i \in {"empty", "some"} :
          \/ stored' = {Completed(TheRow, e, i)}
             /\ pc' = "process_returned" /\ UNCHANGED raised
          \/ Raise("update results", "process_except") /\ UNCHANGED stored
    /\ UNCHANGED <<response, outcome, taskRest>>

\* "except Exception as e" of _process: the update to status "failed", whose
\* own exception is logged, then "raise"
ProcessExcept ==
    /\ pc = "process_except"
    /\ \/ stored' = {[TheRow EXCEPT !.status = "failed"]} /\ UNCHANGED raised
       \/ raised' = raised \cup {"update failed in _process"} /\ UNCHANGED stored
    /\ pc' = "task_except"
    /\ UNCHANGED <<response, outcome, taskRest>>

\* a handler of the task that only raises again
TaskExceptOnlyRaises ==
    /\ pc = "task_except"
    /\ \/ UNCHANGED <<stored, raised>>
       \/ raised' = raised \cup {"update failed in the task"} /\ UNCHANGED stored
    /\ outcome' = [status |-> "raised", buffer |-> None]
    /\ pc' = "ended"
    /\ UNCHANGED <<response, taskRest>>

\* "except Exception as e" of the task: the update to status "failed" once
\* more, whose own exception is passed over, then "raise"
TaskExcept ==
    /\ pc = "task_except"
    /\ \/ stored' = {[TheRow EXCEPT !.status = "failed"]} /\ UNCHANGED raised
       \/ raised' = raised \cup {"update failed in the task"} /\ UNCHANGED stored
    /\ outcome' = [status |-> "raised", buffer |-> None]
    /\ pc' = "ended"
    /\ UNCHANGED <<response, taskRest>>

\* _process returned: the task logs, closes the loop and returns
TaskReturns ==
    /\ pc = "process_returned"
    /\ outcome' = [status |-> "returned", buffer |-> None]
    /\ pc' = "ended"
    /\ UNCHANGED <<stored, response, raised, taskRest>>

NextBackground ==
    \/ ValidateRequest
    \/ UploadAudio
    \/ InsertConsultation
    \/ AddTask
    \/ NewEventLoop
    \/ UpdateProgress
    \/ TranscribeAudio
    \/ UpdateTranscript
    \/ GenerateSoapNote
    \/ UpdateResults
    \/ ProcessExcept
    \/ TaskExcept
    \/ TaskReturns

SpecBackground == InitBackground /\ [][NextBackground]_vars

\* the event loop runs the task until it is complete, and every call it
\* awaits returns or raises
SpecBackgroundLive == SpecBackground /\ WF_vars(NextBackground)

TaskEnded == pc = "ended" /\ outcome.status # "pending"

StatusLeft(r) ==
    IF r = {} THEN "completed"
    ELSE IF /\ "update failed in the task" \in r
            /\ {"update failed in _process", "new_event_loop"} \cap r # {}
         THEN "processing"
         ELSE "failed"

====
